---- MODULE Spec2Model ----
(***************************************************************************)
(* Guardian AI: the Line Auditor (CodeAuditorAgent), the two-pass hybrid   *)
(* audit (GuardianAgentSimple._run_hybrid_audit and the code_auditor tool  *)
(* of langchain_agent.py) and the ingestion of legal_analyst_tool.         *)
(*                                                                         *)
(* The module holds several specifications over one set of variables:      *)
(*   SpecChunk   _split_into_chunks applied to bounded file contents       *)
(*   SpecScan    scan_files applied to bounded file lists and model output *)
(*   Spec        one hybrid audit run, step by step                        *)
(*   SpecIngest  a sequence of legal_analyst_tool calls on one store       *)
(* The variables of the parts a specification does not use stay idle.      *)
(***************************************************************************)
EXTENDS Integers, Sequences, FiniteSets, TLC

VARIABLES
    \* ---- _split_into_chunks (SpecChunk)
    chunk_pc,        \* "input" before the call, "split" after it
    content,         \* the file content: a sequence of characters
    chunk_size,      \* self.chunk_size
    chunks,          \* the list _split_into_chunks returned
    \* ---- scan_files (SpecScan)
    scan_pc,         \* "input" before the call, "scanned" after it
    file_paths,      \* the list handed to scan_files
    scan_env,        \* what the outside world answers during the scan
    scan_result,     \* what scan_files returned, with the chunk analyses issued
    \* ---- one hybrid audit run (Spec)
    impl,                    \* "simple": GuardianAgentSimple._run_hybrid_audit,
                             \* "langchain": code_auditor of langchain_agent.py
    pc,                      \* the position of the run
    prioritized_extensions,  \* step 0's list
    guideline_patterns,      \* step 1's parsed JSON value
    guideline_idx,           \* the next entry of guideline_patterns.items()
    checker,                 \* the ComplianceChecker: repo_path, temp_dir set or not
    initial_relevant_files,  \* the pass-1 candidate set
    refined_patterns,        \* step 4's list
    second_pass_files,       \* the files the refined patterns found
    newly_discovered_files,  \* the pass-2 file set
    heap,                    \* the Python lists of violations, by reference
    initial_violations,      \* a reference into heap (0: unbound)
    all_violations,          \* a reference into heap (0: unbound)
    pass1_violation_count,   \* langchain: len(initial_violations) before pass 2
    result,                  \* what the run returned
    trace,                   \* what the run did: calls made, lists returned
    \* ---- legal_analyst_tool calls on one store (SpecIngest)
    db_exists,       \* os.path.exists(CHROMA_DB_DIR)
    vectorstore,     \* the persisted collection: chunk ID -> chunk
    ingest_log,      \* one record per call: its inputs and what it did
    query,           \* the retrieval of the last call: mode and context
    \* ---- the repository Q&A session of an agent (SpecQA)
    qa_impl,           \* "simple": GuardianAgentSimple, "langchain":
                       \* LangChainGuardianAgent
    qa_tool_instance,  \* self.qa_tool_instance: 0 for None, else a RepoQATool
    qa_repo_url,       \* self.qa_repo_url ("None" for None)
    qa_temp_dir,       \* self.qa_temp_dir: 0 for None, else a directory
    qa_tools,          \* the RepoQATool objects made so far, by what each indexed
    qa_dirs,           \* the directories mkdtemp made: TRUE while on disk
    session_history,   \* self.session_history
    qa_call,           \* the last operation: its input and what it did
    \* ---- GuardianAgentSimple._execute_plan (SpecPlan)
    plan,              \* the plan dict: the keys present and their values
    plan_i,            \* the position of the loop in execution_order
    plan_results,      \* the results dict
    plan_log,          \* the tool calls made, in order, with their arguments
    env_api_key,       \* os.environ.get("GOOGLE_API_KEY")
    \* ---- GitHubRepoTool (SpecRepo)
    current_repo_path, \* self.current_repo_path ("None" or base_clone_dir/name)
    repo_metadata,     \* self.repo_metadata
    clone_dirs,        \* base_clone_dir: per name, the URL cloned there
    repo_call,         \* the last operation and what it returned
    \* ---- the deletion of a temporary clone (SpecCleanup)
    cleanup_call,      \* the last deletion: where, of which files, and its end
    \* ---- the REST API (SpecApi)
    chat_sessions,     \* the dict chat_sessions: session ID -> session
    api_dirs,          \* the clone directories of the sessions: TRUE on disk
    api_call,          \* the last request and its response
    \* ---- the streaming audit endpoint (SpecStream)
    stream_pc,         \* where event_generator stands
    stream_events,     \* the events yielded so far
    stream             \* the request, the files still to visit, what was done

chunkVars == <<chunk_pc, content, chunk_size, chunks>>
scanVars == <<scan_pc, file_paths, scan_env, scan_result>>
auditVars ==
    <<impl, pc, prioritized_extensions, guideline_patterns, guideline_idx,
      checker, initial_relevant_files, refined_patterns, second_pass_files,
      newly_discovered_files, heap, initial_violations, all_violations,
      pass1_violation_count, result, trace>>
ingestVars == <<db_exists, vectorstore, ingest_log, query>>
qaVars ==
    <<qa_impl, qa_tool_instance, qa_repo_url, qa_temp_dir, qa_tools, qa_dirs,
      session_history, qa_call>>
planVars == <<plan, plan_i, plan_results, plan_log, env_api_key>>
repoVars == <<current_repo_path, repo_metadata, clone_dirs, repo_call>>
cleanupVars == <<cleanup_call>>
apiVars == <<chat_sessions, api_dirs, api_call>>
streamVars == <<stream_pc, stream_events, stream>>
vars ==
    <<chunkVars, scanVars, auditVars, ingestVars, qaVars, planVars, repoVars,
      cleanupVars, apiVars, streamVars>>
nonAuditVars ==
    <<chunkVars, scanVars, ingestVars, qaVars, planVars, repoVars, cleanupVars,
      apiVars, streamVars>>

(***************************************************************************)
(* Bounds of the model.                                                    *)
(***************************************************************************)
MaxContentLen == 5
MaxChunkSize == 3
MaxViolationsPerChunk == 1
MaxScanFiles == 2
MaxIngests == 2
MaxQaTools == 3
MaxHistory == 4
MaxPlanLen == 3
MaxSessions == 2
MaxMessages == 4

(***************************************************************************)
(* Program constants.                                                      *)
(***************************************************************************)
DefaultChunkSize == 30

NL == "\n"

Min(a, b) == IF a < b THEN a ELSE b

(***************************************************************************)
(* content.split('\n'): the segments between newline characters; a         *)
(* content with n newlines has n + 1 segments (the last may be empty).     *)
(***************************************************************************)
RECURSIVE SplitFrom(_, _, _)
SplitFrom(text, i, cur) ==
    IF i > Len(text) THEN <<cur>>
    ELSE IF text[i] = NL THEN <<cur>> \o SplitFrom(text, i + 1, <<>>)
    ELSE SplitFrom(text, i + 1, Append(cur, text[i]))

SplitLines(text) == SplitFrom(text, 1, <<>>)

(* '\n'.join(lines) *)
RECURSIVE JoinLines(_)
JoinLines(lines) ==
    IF Len(lines) = 0 THEN <<>>
    ELSE IF Len(lines) = 1 THEN lines[1]
    ELSE lines[1] \o <<NL>> \o JoinLines(Tail(lines))

(* lines[i:j] of Python, 0-based, end exclusive, clipped to the list *)
Slice(lines, i, j) == SubSeq(lines, i + 1, Min(j, Len(lines)))

(* the chunk end_line as the source computes it, and a faulty variant *)
ChunkEndLineNoClip(i, size, total) == i + size

ChunkEndLine(i, size, total) == Min(i + size, total)

(* one iteration of `for i in range(0, len(lines), self.chunk_size)` *)
MakeChunk(lines, i, size, file_path) ==
    [content |-> JoinLines(Slice(lines, i, i + size)),
     file_path |-> file_path,
     start_line |-> i + 1,
     end_line |-> ChunkEndLine(i, size, Len(lines)),
     total_lines |-> Len(lines)]

RECURSIVE ChunksFrom(_, _, _, _)
ChunksFrom(lines, i, size, file_path) ==
    IF i >= Len(lines) THEN <<>>
    ELSE <<MakeChunk(lines, i, size, file_path)>>
             \o ChunksFrom(lines, i + size, size, file_path)

(* CodeAuditorAgent._split_into_chunks *)
SplitIntoChunks(text, file_path, size) ==
    ChunksFrom(SplitLines(text), 0, size, file_path)

(***************************************************************************)
(* SpecChunk: _split_into_chunks on every content of at most MaxContentLen *)
(* characters with chunk sizes 1..MaxChunkSize, and on the 65-line file    *)
(* of the scenario with the default chunk size.                            *)
(***************************************************************************)
Chars == {"x", NL}

Contents == UNION {[1..n -> Chars] : n \in 0..MaxContentLen}

(* 64 newlines: 65 lines *)
ScenarioContent == [i \in 1..64 |-> NL]

ChunkInputs ==
    (Contents \X (1..MaxChunkSize)) \cup {<<ScenarioContent, DefaultChunkSize>>}

ChunkIdle ==
    /\ chunk_pc = "idle"
    /\ content = <<>>
    /\ chunk_size = DefaultChunkSize
    /\ chunks = <<>>

ChunkInit ==
    /\ chunk_pc = "input"
    /\ \E in \in ChunkInputs :
          /\ content = in[1]
          /\ chunk_size = in[2]
    /\ chunks = <<>>

SplitCall ==
    /\ chunk_pc = "input"
    /\ chunks' = SplitIntoChunks(content, "f", chunk_size)
    /\ chunk_pc' = "split"
    /\ UNCHANGED <<content, chunk_size>>

(***************************************************************************)
(* The clone's file system, as far as the Line Auditor reads it. A path is *)
(* named by its repository-relative text; Parts gives its components.      *)
(* "unknown" is the placeholder source of a passage without metadata and   *)
(* names no file.                                                          *)
(***************************************************************************)
Paths == {"src/a.py", "b.py", "notes.md", "node_modules/x.js", "unknown"}

Parts(p) ==
    CASE p = "src/a.py" -> <<"src", "a.py">>
      [] p = "b.py" -> <<"b.py">>
      [] p = "notes.md" -> <<"notes.md">>
      [] p = "node_modules/x.js" -> <<"node_modules", "x.js">>
      [] OTHER -> <<"unknown">>

Suffix(p) ==
    CASE p = "src/a.py" -> ".py"
      [] p = "b.py" -> ".py"
      [] p = "notes.md" -> ".md"
      [] p = "node_modules/x.js" -> ".js"
      [] OTHER -> ""

(* (repo_path / file).exists() and Path.is_file() on the clone *)
Exists(p) == p # "unknown"

(* src/a.py has 31 lines (two chunks at the default size), the others one *)
FileContent(p) ==
    IF p = "src/a.py" THEN [i \in 1..30 |-> NL] ELSE <<"x">>

RELEVANT_EXTENSIONS ==
    {".py", ".js", ".java", ".html", ".css", ".jsx", ".tsx", ".ts", ".cpp",
     ".c", ".h", ".go", ".rb", ".php", ".swift", ".kt"}

IGNORE_EXTENSIONS ==
    {".jpg", ".png", ".gif", ".pdf", ".zip", ".exe", ".dll", ".so", ".dylib",
     ".bin", ".dat", ".db", ".sqlite", ".ico", ".svg", ".woff", ".ttf", ".eot"}

IGNORE_DIRS ==
    {"node_modules", "venv", "env", ".git", "__pycache__", "build", "dist",
     ".idea", ".vscode", "target", "bin", "obj"}

Range(s) == {s[i] : i \in DOMAIN s}

(* CodeAuditorAgent._should_analyze_file; the clone lives under "tmp" *)
ShouldAnalyzeFile(p) ==
    IF (Range(Parts(p)) \cup {"tmp"}) \cap IGNORE_DIRS # {} THEN FALSE
    ELSE IF Suffix(p) \in IGNORE_EXTENSIONS THEN FALSE
    ELSE IF Suffix(p) \in RELEVANT_EXTENSIONS THEN TRUE
    ELSE FALSE

(***************************************************************************)
(* scan_files infers repo_root when the caller gives none: the common path *)
(* of the files, or its parent when the common path is itself a file.      *)
(***************************************************************************)
RECURSIVE CommonPrefix(_, _)
CommonPrefix(a, b) ==
    IF Len(a) = 0 \/ Len(b) = 0 \/ a[1] # b[1] THEN <<>>
    ELSE <<a[1]>> \o CommonPrefix(Tail(a), Tail(b))

RECURSIVE CommonPath(_)
CommonPath(paths) ==
    IF Len(paths) = 1 THEN Parts(paths[1])
    ELSE CommonPrefix(Parts(paths[1]), CommonPath(Tail(paths)))

InferRepoRoot(paths) ==
    LET common == CommonPath(paths)
    IN  IF \E p \in Range(paths) : Parts(p) = common /\ Exists(p)
        THEN SubSeq(common, 1, Len(common) - 1)
        ELSE common

(* file_path.relative_to(repo_root) *)
RelativeTo(p, root) == SubSeq(Parts(p), Len(root) + 1, Len(Parts(p)))

(***************************************************************************)
(* The model's answer to one chunk prompt, by what _analyze_chunk does     *)
(* with it: the call raises; the text is not JSON; the JSON is a value     *)
(* that is no list; a list holding an item that is no object; or a list of *)
(* violation objects (items: what the model wrote in each).                *)
(***************************************************************************)
ChunkResponses ==
    {[kind |-> k, items |-> <<>>] :
        k \in {"llm_error", "bad_json", "not_list", "bad_items"}}
    \cup {[kind |-> "list", items |-> [i \in 1..n |-> i]] :
            n \in 0..MaxViolationsPerChunk}

(* the violation object the model wrote as item i: its own content, and
   values of its own under the keys the agent is about to set *)
ModelItem(i) ==
    [payload |-> i,
     file |-> <<"model.py">>,
     line |-> 7,
     file_path |-> <<"model.py">>,
     line_number |-> 7]

(* a faulty variant: keys the model supplied are kept *)
AnnotatedKeepingModelKeys(chunk, resp) ==
    [i \in 1..Len(resp.items) |-> ModelItem(resp.items[i])]

(* the four assignments made to every violation of the list *)
AnnotatedViolations(chunk, resp) ==
    [i \in 1..Len(resp.items) |->
        [ModelItem(resp.items[i]) EXCEPT
            !.file = chunk.file_path,
            !.line = chunk.start_line,
            !.file_path = chunk.file_path,
            !.line_number = chunk.start_line]]

(* a faulty variant: the handlers let the failure out of _analyze_chunk *)
AnalyzeChunkRaising(chunk, resp) ==
    IF resp.kind = "list"
    THEN [raised |-> FALSE, violations |-> AnnotatedViolations(chunk, resp)]
    ELSE [raised |-> TRUE, violations |-> <<>>]

(* CodeAuditorAgent._analyze_chunk: both handlers return [] *)
AnalyzeChunk(chunk, resp) ==
    CASE resp.kind = "llm_error" -> [raised |-> FALSE, violations |-> <<>>]
      [] resp.kind = "bad_json" -> [raised |-> FALSE, violations |-> <<>>]
      [] resp.kind = "not_list" -> [raised |-> FALSE, violations |-> <<>>]
      [] resp.kind = "bad_items" -> [raised |-> FALSE, violations |-> <<>>]
      [] OTHER ->
            [raised |-> FALSE, violations |-> AnnotatedViolations(chunk, resp)]

(***************************************************************************)
(* CodeAuditorAgent._analyze_file: the chunks one after the other, each    *)
(* chunk's violations appended to self.violations at once; any exception   *)
(* ends the file. acc = [violations, calls]: self.violations and the chunk *)
(* analyses issued so far (file, start_line, end_line).                    *)
(***************************************************************************)
RECURSIVE AnalyzeChunksFrom(_, _, _, _)
AnalyzeChunksFrom(cs, k, resps, acc) ==
    IF k > Len(cs) THEN acc
    ELSE LET r == AnalyzeChunk(cs[k], resps[k])
             called == [acc EXCEPT !.calls =
                          Append(@, <<cs[k].file_path, cs[k].start_line,
                                      cs[k].end_line>>)]
         IN  IF r.raised THEN called
             ELSE AnalyzeChunksFrom(cs, k + 1, resps,
                     [called EXCEPT !.violations = @ \o r.violations])

AnalyzeFile(p, root, env, size, acc) ==
    IF p \in env.unreadable THEN acc
    ELSE LET cs == SplitIntoChunks(FileContent(p), RelativeTo(p, root), size)
         IN  AnalyzeChunksFrom(cs, 1, [k \in 1..Len(cs) |-> env.resp[<<p, k>>]],
                               acc)

(* the loop of scan_files over file_paths *)
RECURSIVE ScanLoop(_, _, _, _, _, _)
ScanLoop(paths, k, root, env, size, acc) ==
    IF k > Len(paths) THEN acc
    ELSE IF Exists(paths[k]) /\ ShouldAnalyzeFile(paths[k])
    THEN ScanLoop(paths, k + 1, root, env, size,
            AnalyzeFile(paths[k], root, env, size,
                        [acc EXCEPT !.analyzed_files = @ + 1]))
    ELSE ScanLoop(paths, k + 1, root, env, size, acc)

(***************************************************************************)
(* CodeAuditorAgent.scan_files without repo_root, as the hybrid audit      *)
(* calls it (repo_root None: NoRepoRoot), or with the repo_root that        *)
(* scan_repository gives. calls is the list of chunk analyses issued,      *)
(* which the code does not keep.                                           *)
(***************************************************************************)
NoRepoRoot == <<"?">>

ScanFilesAt(paths, repo_root, env, size) ==
    IF Len(paths) = 0
    THEN [status |-> "success", total_files |-> 0, analyzed_files |-> 0,
          total_violations |-> 0, violations |-> <<>>, calls |-> <<>>]
    ELSE LET root == IF repo_root = NoRepoRoot THEN InferRepoRoot(paths)
                     ELSE repo_root
             acc == ScanLoop(paths, 1, root, env, size,
                        [violations |-> <<>>, calls |-> <<>>,
                         analyzed_files |-> 0])
         IN  [status |-> "success",
              total_files |-> Len(paths),
              analyzed_files |-> acc.analyzed_files,
              total_violations |-> Len(acc.violations),
              violations |-> acc.violations,
              calls |-> acc.calls]

ScanFiles(paths, env, size) == ScanFilesAt(paths, NoRepoRoot, env, size)

(***************************************************************************)
(* What the outside world answers during one scan of `files`: the model's  *)
(* response to every chunk prompt, and the files whose open() fails.       *)
(***************************************************************************)
Analysable(files) == {p \in files : Exists(p) /\ ShouldAnalyzeFile(p)}

NumChunks(p, size) == Len(SplitIntoChunks(FileContent(p), <<>>, size))

ChunkKeys(files, size) ==
    UNION {{<<p, k>> : k \in 1..NumChunks(p, size)} : p \in Analysable(files)}

ScanEnvs(files, size) ==
    [resp : [ChunkKeys(files, size) -> ChunkResponses],
     unreadable : {{}, {"b.py"} \cap files}]

(* lists of distinct paths, at most n long *)
RECURSIVE PathLists(_)
PathLists(n) ==
    IF n = 0 THEN {<<>>}
    ELSE LET shorter == PathLists(n - 1)
         IN  shorter \cup {Append(l, p) : l \in shorter, p \in Paths}

DistinctPathLists(n) ==
    {l \in PathLists(n) : \A i, j \in DOMAIN l : i # j => l[i] # l[j]}

NoScanEnv == [resp |-> <<>>, unreadable |-> {}]

NoScanResult ==
    [status |-> "none", total_files |-> 0, analyzed_files |-> 0,
     total_violations |-> 0, violations |-> <<>>, calls |-> <<>>]

ScanIdle ==
    /\ scan_pc = "idle"
    /\ file_paths = <<>>
    /\ scan_env = NoScanEnv
    /\ scan_result = NoScanResult

ScanInit ==
    /\ scan_pc = "input"
    /\ file_paths \in DistinctPathLists(MaxScanFiles)
    /\ scan_env \in ScanEnvs(Range(file_paths), DefaultChunkSize)
    /\ scan_result = NoScanResult

ScanFilesCall ==
    /\ scan_pc = "input"
    /\ scan_result' = ScanFiles(file_paths, scan_env, DefaultChunkSize)
    /\ scan_pc' = "scanned"
    /\ UNCHANGED <<file_paths, scan_env>>


(***************************************************************************)
(* The hybrid audit. One run is a sequence of steps, each one model call,  *)
(* one clone, one File Discoverer call or one Line Auditor pass; what the  *)
(* model, git and the retriever answer is chosen freely at each step.      *)
(***************************************************************************)

(* Step 0: the file-type call raises, answers no JSON, or answers a list *)
FileTypeResponses == {"llm_error", "bad_json", "list"}

PrioritizedExtensions(resp) == IF resp = "list" THEN <<".py">> ELSE <<>>

(***************************************************************************)
(* A value of the pattern object: a list of n pattern strings ("strings"), *)
(* a list of n strings and an item that is no string, such as a number     *)
(* ("mixed"), or a value that is no list, such as a number ("scalar").     *)
(***************************************************************************)
Strings(n) == [kind |-> "strings", n |-> n]

Mixed(n) == [kind |-> "mixed", n |-> n]

Scalar == [kind |-> "scalar", n |-> 0]

(* the pattern objects the model may answer: the values, in key order *)
PatternSets ==
    {<<>>, <<Strings(0)>>, <<Strings(1)>>, <<Strings(2)>>,
     <<Strings(1), Strings(1)>>, <<Mixed(1)>>, <<Strings(1), Mixed(1)>>,
     <<Mixed(0), Strings(1)>>, <<Scalar>>, <<Strings(1), Scalar>>}

(***************************************************************************)
(* Step 1's response: the call raises, the text is empty, is no JSON, is a *)
(* JSON number, a JSON array, or a JSON object.                            *)
(***************************************************************************)
PatternResponses ==
    {[kind |-> k, items |-> <<>>] :
        k \in {"llm_error", "empty", "bad_json", "scalar", "array"}}
    \cup {[kind |-> "object", items |-> ps] : ps \in PatternSets}

NoPatterns == [kind |-> "none", items |-> <<>>]

(* a faulty variant: a failed generation is taken for an empty object *)
ParsePatternsNoFallback(which, resp) ==
    IF resp.kind \in {"array", "object"}
    THEN [failed |-> FALSE, value |-> resp]
    ELSE [failed |-> FALSE, value |-> [kind |-> "object", items |-> <<>>]]

(***************************************************************************)
(* Step 1 up to its handler: strip, the empty check, fence stripping,      *)
(* json.loads and len(guideline_patterns); the langchain tool also calls   *)
(* guideline_patterns.keys() inside the try.                               *)
(***************************************************************************)
ParsePatterns(which, resp) ==
    CASE resp.kind \in {"llm_error", "empty", "bad_json", "scalar"} ->
            [failed |-> TRUE, value |-> NoPatterns]
      [] resp.kind = "array" /\ which = "langchain" ->
            [failed |-> TRUE, value |-> NoPatterns]
      [] OTHER -> [failed |-> FALSE, value |-> resp]

(***************************************************************************)
(* The retriever's answer to one pattern: it (or the QA chain) raises, or  *)
(* it returns passages, given by their metadata source, best first.        *)
(***************************************************************************)
RetrieverOutputs ==
    {[error |-> TRUE, docs |-> <<>>]}
    \cup {[error |-> FALSE, docs |-> d] :
            d \in {<<>>, <<"src/a.py">>, <<"b.py">>, <<"notes.md", "unknown">>,
                   <<"src/a.py", "src/a.py", "src/a.py", "b.py">>}}

EvidenceCap == 3

(* the sources of all passages the retrievals of one check_patterns call
   returned *)
ReturnedSources(n, outs) == UNION {Range(outs[i].docs) : i \in 1..n}

(* one iteration of check_patterns: evidence_sources of one pattern *)
EvidenceSources(out) ==
    IF out.error THEN <<>>
    ELSE SubSeq(out.docs, 1, Min(EvidenceCap, Len(out.docs)))

(* ComplianceChecker.check_patterns on n pattern strings, indexed repo *)
CheckPatterns(n, outs) ==
    [status |-> "success",
     compliance_checks |-> [i \in 1..n |-> [evidence_sources |-> EvidenceSources(outs[i])]],
     total_guidelines_checked |-> n]

(* the loops adding every evidence source to a set *)
CollectSources(res) ==
    UNION {Range(res.compliance_checks[i].evidence_sources) :
              i \in DOMAIN res.compliance_checks}

(* [... for file in files if (repo_path / file).exists()], in any order *)
Orderings(S) ==
    {o \in [1..Cardinality(S) -> S] : \A i, j \in DOMAIN o : i # j => o[i] # o[j]}

ExistingFiles(S) == {p \in S : Exists(p)}

(* faulty variants of the three decisions below *)
ShouldRefineAlways(violations) == TRUE

NewlyDiscoveredNoFilter(second, initial) == second

NewlyDiscoveredWithInitial(second, initial) == second \cup initial

ListReplace(a, b) == b

(* `if initial_violations:` *)
ShouldRefine(violations) == Len(violations) > 0

(* newly_discovered_files = second_pass_files - initial_relevant_files *)
NewlyDiscovered(second, initial) == second \ initial

(* all_violations.extend(second_violations) *)
ListExtend(a, b) == a \o b

(* the result of a run, by the fields of the AuditResult it carries: the
   simple agent's details dict, or the langchain tool's _last_audit_results
   (repo_url: repository, stats: scan_statistics, stats.total_violations:
   total_violations; the simple agent's pass2_new_files: pass2_files) *)
NoResult ==
    [path |-> "none", keys |-> {}, violations |-> <<>>, total_violations |-> 0,
     pass1_files |-> 0, pass1_violations |-> 0, pass2_files |-> 0,
     pass2_violations |-> 0, files_scanned_in_detail |-> {}]

AuditResultKeys == {"repository", "total_violations", "violations", "scan_statistics"}

PassStatKeys == {"pass1_files", "pass1_violations", "pass2_files", "pass2_violations"}

(* the early return of the simple agent: summary, mode and repository *)
NoFilesResult == [NoResult EXCEPT !.path = "no_files", !.keys = {"repository"}]

(* _run_code_auditor's handler: summary, error and mode *)
EscapedResult == [NoResult EXCEPT !.path = "error", !.keys = {"error"}]

(* the result of the exhaustive audit, from scan_repository's dict *)
FullAuditResult(violations) ==
    [NoResult EXCEPT !.path = "audit", !.keys = AuditResultKeys,
                     !.violations = violations,
                     !.total_violations = Len(violations)]

(* step 7 *)
HybridResult(which, hp, iv, av, count, initial, newly) ==
    LET p1 == IF which = "simple" THEN Len(hp[iv]) ELSE count
    IN  [path |-> "hybrid",
         keys |-> AuditResultKeys \cup PassStatKeys,
         violations |-> hp[av],
         total_violations |-> Len(hp[av]),
         pass1_files |-> Cardinality(initial),
         pass1_violations |-> p1,
         pass2_files |-> Cardinality(newly),
         pass2_violations |-> Len(hp[av]) - p1,
         files_scanned_in_detail |->
             IF which = "simple" THEN initial \cup newly ELSE {}]

(* ComplianceChecker.cleanup *)
CleanChecker == [repo_path |-> FALSE, temp_dir |-> FALSE, qa_chain |-> FALSE]

(* the directories cleanup removes: the one self.temp_dir names, if any *)
TempDirsOf(c) == IF c.temp_dir THEN 1 ELSE 0

NoTrace ==
    [filetype_calls |-> 0, pattern_calls |-> 0, refine_calls |-> 0,
     clones |-> 0, check_patterns1 |-> 0, check_patterns2 |-> 0,
     scans |-> <<>>, full_audits |-> 0,
     temp_dirs_created |-> 0, temp_dirs_deleted |-> 0,
     returned1 |-> {}, returned2 |-> {},
     pattern_response |-> "none", pattern_failed |-> FALSE, failed_stages |-> {}, discovery1_done |-> FALSE]

AuditIdle ==
    /\ impl = "none"
    /\ pc = "idle"
    /\ prioritized_extensions = <<>>
    /\ guideline_patterns = NoPatterns
    /\ guideline_idx = 0
    /\ checker = CleanChecker
    /\ initial_relevant_files = {}
    /\ refined_patterns = [strings |-> 0, others |-> 0]
    /\ second_pass_files = {}
    /\ newly_discovered_files = {}
    /\ heap = <<>>
    /\ initial_violations = 0
    /\ all_violations = 0
    /\ pass1_violation_count = 0
    /\ result = NoResult
    /\ trace = NoTrace

AuditInit ==
    /\ impl \in {"simple", "langchain"}
    /\ pc = "Start"
    /\ prioritized_extensions = <<>>
    /\ guideline_patterns = NoPatterns
    /\ guideline_idx = 0
    /\ checker = CleanChecker
    /\ initial_relevant_files = {}
    /\ refined_patterns = [strings |-> 0, others |-> 0]
    /\ second_pass_files = {}
    /\ newly_discovered_files = {}
    /\ heap = <<>>
    /\ initial_violations = 0
    /\ all_violations = 0
    /\ pass1_violation_count = 0
    /\ result = NoResult
    /\ trace = NoTrace

(***************************************************************************)
(* What the outside world answers during a scan of the audit: every chunk  *)
(* is answered with text that is no JSON or with a list of violations, and *)
(* every file can be read (SpecScan covers the other answers).             *)
(***************************************************************************)
AuditChunkResponses == {r \in ChunkResponses : r.kind \in {"bad_json", "list"}}

AuditScanEnvs(files) ==
    [resp : [ChunkKeys(files, DefaultChunkSize) -> AuditChunkResponses],
     unreadable : {{}}]

(* a new Python list holding vs: the heap with it, its reference the length *)
NewList(hp, vs) == Append(hp, vs)

(***************************************************************************)
(* The end of pass 1. The simple agent binds all_violations to the list    *)
(* initial_violations names; the langchain tool copies the list and keeps  *)
(* its length.                                                             *)
(***************************************************************************)
BindAllViolations(which, hp, iv) ==
    IF which = "simple"
    THEN [heap |-> hp, all |-> iv, count |-> 0]
    ELSE [heap |-> NewList(hp, hp[iv]), all |-> Len(hp) + 1, count |-> Len(hp[iv])]

(* Step 0 *)
DetermineFileTypes ==
    /\ pc = "Start"
    /\ \E resp \in FileTypeResponses :
          /\ prioritized_extensions' = PrioritizedExtensions(resp)
          /\ trace' = [trace EXCEPT
                          !.filetype_calls = @ + 1,
                          !.failed_stages =
                              IF resp = "list" THEN @ ELSE @ \cup {"file_types"}]
    /\ pc' = "FileTypesDone"
    /\ UNCHANGED <<impl, guideline_patterns, guideline_idx, checker,
                   initial_relevant_files, refined_patterns, second_pass_files,
                   newly_discovered_files, heap, initial_violations,
                   all_violations, pass1_violation_count, result>>
    /\ UNCHANGED nonAuditVars

(* Step 1: on failure the simple agent returns _run_code_auditor(mode=
   "audit"), the langchain tool sets mode = "audit" and falls through *)
GeneratePatterns ==
    /\ pc = "FileTypesDone"
    /\ \E resp \in PatternResponses :
          LET out == ParsePatterns(impl, resp)
          IN  /\ guideline_patterns' = out.value
              /\ pc' = IF out.failed THEN "Fallback" ELSE "PatternsGenerated"
              /\ trace' = [trace EXCEPT
                              !.pattern_calls = @ + 1,
                              !.pattern_response = resp.kind,
                              !.pattern_failed = out.failed,
                              !.failed_stages =
                                  IF resp.kind = "array" /\ ~out.failed
                                  THEN @ \cup {"patterns_not_a_mapping"} ELSE @]
    /\ UNCHANGED <<impl, prioritized_extensions, guideline_idx, checker,
                   initial_relevant_files, refined_patterns, second_pass_files,
                   newly_discovered_files, heap, initial_violations,
                   all_violations, pass1_violation_count, result>>
    /\ UNCHANGED nonAuditVars

(***************************************************************************)
(* checker._clone_and_index: success; the clone raises (the checker cleans *)
(* up and reports an error); or indexing finds no documents (an error is   *)
(* reported). On an error the simple agent falls back to the exhaustive    *)
(* audit; the langchain tool raises, its pass-1 handler logs, and the run  *)
(* goes on with initial_violations = [].                                   *)
(***************************************************************************)
CloneAndIndex ==
    /\ pc = "PatternsGenerated"
    /\ \E outcome \in {"success", "clone_error", "no_documents"} :
          LET hp == IF impl = "langchain" THEN NewList(heap, <<>>) ELSE heap
              iv == IF impl = "langchain" THEN Len(hp) ELSE 0
              bound == BindAllViolations(impl, hp, iv)
              aborted == impl = "langchain" /\ outcome # "success"
          IN  /\ checker' =
                    CASE outcome = "success" ->
                            [repo_path |-> TRUE, temp_dir |-> TRUE, qa_chain |-> TRUE]
                      [] outcome = "clone_error" -> CleanChecker
                      [] OTHER ->
                            [repo_path |-> TRUE, temp_dir |-> TRUE, qa_chain |-> FALSE]
              /\ pc' = CASE outcome = "success" -> "Discovering"
                         [] impl = "simple" -> "Fallback"
                         [] OTHER -> "Pass1Scanned"
              /\ heap' = IF aborted THEN bound.heap ELSE hp
              /\ initial_violations' = iv
              /\ all_violations' = IF aborted THEN bound.all ELSE all_violations
              /\ pass1_violation_count' =
                    IF aborted THEN bound.count ELSE pass1_violation_count
              /\ trace' = [trace EXCEPT
                              !.clones = @ + 1,
                              !.temp_dirs_created = @ + 1,
                              !.temp_dirs_deleted =
                                  IF outcome = "clone_error" THEN @ + 1 ELSE @,
                              !.failed_stages =
                                  IF outcome = "success" THEN @
                                  ELSE @ \cup {"clone_and_index"}]
    /\ guideline_idx' = 1
    /\ UNCHANGED <<impl, prioritized_extensions, guideline_patterns,
                   initial_relevant_files, refined_patterns, second_pass_files,
                   newly_discovered_files, result>>
    /\ UNCHANGED nonAuditVars

(***************************************************************************)
(* `for guideline, patterns in guideline_patterns.items()` on a JSON array *)
(* raises AttributeError. Only the simple agent gets here with an array;   *)
(* nothing in _run_hybrid_audit catches it, _run_code_auditor's handler    *)
(* returns its error dict.                                                 *)
(***************************************************************************)
ItemsRaises ==
    /\ pc = "Discovering"
    /\ guideline_patterns.kind = "array"
    /\ result' = EscapedResult
    /\ pc' = "Done"
    /\ UNCHANGED <<impl, prioritized_extensions, guideline_patterns,
                   guideline_idx, checker, initial_relevant_files,
                   refined_patterns, second_pass_files, newly_discovered_files,
                   heap, initial_violations, all_violations,
                   pass1_violation_count, trace>>
    /\ UNCHANGED nonAuditVars

(***************************************************************************)
(* One iteration of the pass-1 loop: check_patterns(patterns) and the      *)
(* collection of its evidence sources. check_patterns raises on a value    *)
(* that is no list and on an item that is no string: the simple agent lets *)
(* that out; the langchain tool catches it and, for a list, checks the     *)
(* strings of the list again.                                              *)
(***************************************************************************)
DiscoverPass1Step ==
    /\ pc = "Discovering"
    /\ guideline_patterns.kind = "object"
    /\ guideline_idx <= Len(guideline_patterns.items)
    /\ LET patterns == guideline_patterns.items[guideline_idx]
           raises == patterns.kind # "strings"
           searched == IF raises /\ impl = "simple" THEN 0 ELSE patterns.n
       IN  \E outs \in [1..searched -> RetrieverOutputs] :
              /\ initial_relevant_files' =
                    initial_relevant_files
                        \cup CollectSources(CheckPatterns(searched, outs))
              /\ pc' = IF raises /\ impl = "simple" THEN "Done" ELSE "Discovering"
              /\ result' = IF raises /\ impl = "simple" THEN EscapedResult
                           ELSE result
              /\ trace' = [trace EXCEPT
                              !.returned1 = @ \cup ReturnedSources(searched, outs),
                              !.check_patterns1 =
                                  @ + (IF raises /\ patterns.kind = "mixed"
                                          /\ patterns.n > 0 /\ impl = "langchain"
                                       THEN 2 ELSE 1),
                              !.failed_stages =
                                  IF raises THEN @ \cup {"pattern_value"} ELSE @]
    /\ guideline_idx' = guideline_idx + 1
    /\ UNCHANGED <<impl, prioritized_extensions, guideline_patterns, checker,
                   refined_patterns, second_pass_files, newly_discovered_files,
                   heap, initial_violations, all_violations,
                   pass1_violation_count>>
    /\ UNCHANGED nonAuditVars

(***************************************************************************)
(* The pass-1 loop is over. The simple agent returns early when it found   *)
(* no file: it cleans the checker up and returns a summary with mode and   *)
(* repository only.                                                        *)
(***************************************************************************)
DiscoverPass1End ==
    /\ pc = "Discovering"
    /\ guideline_patterns.kind = "object"
    /\ guideline_idx > Len(guideline_patterns.items)
    /\ LET early == impl = "simple" /\ initial_relevant_files = {}
       IN  /\ pc' = IF early THEN "Done" ELSE "Pass1Discovered"
           /\ result' = IF early THEN NoFilesResult ELSE result
           /\ checker' = IF early THEN CleanChecker ELSE checker
    /\ trace' = [trace EXCEPT
                    !.discovery1_done = TRUE,
                    !.temp_dirs_deleted =
                        IF impl = "simple" /\ initial_relevant_files = {}
                        THEN @ + TempDirsOf(checker) ELSE @]
    /\ UNCHANGED <<impl, prioritized_extensions, guideline_patterns,
                   guideline_idx, initial_relevant_files, refined_patterns,
                   second_pass_files, newly_discovered_files, heap,
                   initial_violations, all_violations, pass1_violation_count>>
    /\ UNCHANGED nonAuditVars

(***************************************************************************)
(* Step 3: the files of the candidate set that exist, in the set's order,  *)
(* go to scan_files when there are any; initial_violations names the list  *)
(* the scan returned (or the [] of the default result).                    *)
(***************************************************************************)
ScanPass1 ==
    /\ pc = "Pass1Discovered"
    /\ \E files \in Orderings(ExistingFiles(initial_relevant_files)) :
       \E env \in AuditScanEnvs(Range(files)) :
          LET scanned == Len(files) > 0
              res == ScanFiles(files, env, DefaultChunkSize)
              hp == NewList(heap, IF scanned THEN res.violations ELSE <<>>)
              bound == BindAllViolations(impl, hp, Len(hp))
          IN  /\ heap' = bound.heap
              /\ initial_violations' = Len(hp)
              /\ all_violations' = bound.all
              /\ pass1_violation_count' = bound.count
              /\ trace' = [trace EXCEPT
                              !.scans =
                                  IF scanned
                                  THEN Append(@, [pass |-> 1, files |-> files,
                                                  violations |-> res.violations])
                                  ELSE @]
    /\ pc' = "Pass1Scanned"
    /\ UNCHANGED <<impl, prioritized_extensions, guideline_patterns,
                   guideline_idx, checker, initial_relevant_files,
                   refined_patterns, second_pass_files, newly_discovered_files,
                   result>>
    /\ UNCHANGED nonAuditVars

(* the refined pattern lists the model may answer *)
RefinedLists ==
    {[strings |-> 0, others |-> 0], [strings |-> 1, others |-> 0],
     [strings |-> 2, others |-> 0], [strings |-> 0, others |-> 1],
     [strings |-> 1, others |-> 1]}

(***************************************************************************)
(* Step 4, only when pass 1 found violations: one model call; its handler  *)
(* swallows a failure. The langchain tool turns every item of              *)
(* refined_patterns into a string, the simple agent keeps the items.       *)
(***************************************************************************)
RefinePatterns ==
    /\ pc = "Pass1Scanned"
    /\ ShouldRefine(heap[initial_violations])
    /\ \E kind \in {"llm_error", "bad_json", "not_object", "object"} :
       \E refined \in RefinedLists :
          LET failed == kind # "object"
              kept == IF failed THEN [strings |-> 0, others |-> 0] ELSE refined
          IN  /\ kind # "object" => refined = [strings |-> 0, others |-> 0]
              /\ refined_patterns' = kept
              /\ pc' = IF kept.strings + kept.others > 0 THEN "PatternsRefined"
                       ELSE "Pass2Discovered"
              /\ trace' = [trace EXCEPT
                              !.refine_calls = @ + 1,
                              !.failed_stages =
                                  IF failed THEN @ \cup {"refinement"} ELSE @]
    /\ UNCHANGED <<impl, prioritized_extensions, guideline_patterns,
                   guideline_idx, checker, initial_relevant_files,
                   second_pass_files, newly_discovered_files, heap,
                   initial_violations, all_violations, pass1_violation_count,
                   result>>
    /\ UNCHANGED nonAuditVars

(* `if initial_violations:` is false: straight to step 6's test *)
SkipRefinement ==
    /\ pc = "Pass1Scanned"
    /\ ~ShouldRefine(heap[initial_violations])
    /\ pc' = "Pass2Discovered"
    /\ UNCHANGED <<impl, prioritized_extensions, guideline_patterns,
                   guideline_idx, checker, initial_relevant_files,
                   refined_patterns, second_pass_files, newly_discovered_files,
                   heap, initial_violations, all_violations,
                   pass1_violation_count, result, trace>>
    /\ UNCHANGED nonAuditVars

(***************************************************************************)
(* Step 5: check_patterns(refined_patterns) and the set difference. In the *)
(* simple agent an item that is no string makes check_patterns raise; the  *)
(* refinement handler swallows it and no file is newly discovered.         *)
(***************************************************************************)
DiscoverPass2 ==
    /\ pc = "PatternsRefined"
    /\ LET raises == impl = "simple" /\ refined_patterns.others > 0
           searched == IF raises THEN 0
                       ELSE refined_patterns.strings + refined_patterns.others
       IN  \E outs \in [1..searched -> RetrieverOutputs] :
              LET second == CollectSources(CheckPatterns(searched, outs))
              IN  /\ second_pass_files' = second
                  /\ newly_discovered_files' =
                        IF raises THEN {}
                        ELSE NewlyDiscovered(second, initial_relevant_files)
                  /\ trace' = [trace EXCEPT
                                  !.returned2 = ReturnedSources(searched, outs),
                                  !.check_patterns2 = @ + 1,
                                  !.failed_stages =
                                      IF raises THEN @ \cup {"refined_patterns"}
                                      ELSE @]
    /\ pc' = "Pass2Discovered"
    /\ UNCHANGED <<impl, prioritized_extensions, guideline_patterns,
                   guideline_idx, checker, initial_relevant_files,
                   refined_patterns, heap, initial_violations, all_violations,
                   pass1_violation_count, result>>
    /\ UNCHANGED nonAuditVars

(***************************************************************************)
(* Step 6: when files were newly discovered, those that exist go to        *)
(* scan_files, and the list it returns is appended to all_violations.      *)
(***************************************************************************)
ScanPass2 ==
    /\ pc = "Pass2Discovered"
    /\ \E files \in Orderings(ExistingFiles(newly_discovered_files)) :
       \E env \in AuditScanEnvs(Range(files)) :
          LET scanned == Len(files) > 0
              res == ScanFiles(files, env, DefaultChunkSize)
              hp == NewList(heap, res.violations)
          IN  /\ heap' = IF scanned
                         THEN [hp EXCEPT ![all_violations] =
                                  ListExtend(hp[all_violations], hp[Len(hp)])]
                         ELSE heap
              /\ trace' = [trace EXCEPT
                              !.scans =
                                  IF scanned
                                  THEN Append(@, [pass |-> 2, files |-> files,
                                                  violations |-> res.violations])
                                  ELSE @]
    /\ pc' = "Pass2Done"
    /\ UNCHANGED <<impl, prioritized_extensions, guideline_patterns,
                   guideline_idx, checker, initial_relevant_files,
                   refined_patterns, second_pass_files, newly_discovered_files,
                   initial_violations, all_violations, pass1_violation_count,
                   result>>
    /\ UNCHANGED nonAuditVars

(* checker.cleanup() and step 7 *)
Aggregate ==
    /\ pc = "Pass2Done"
    /\ checker' = CleanChecker
    /\ result' = HybridResult(impl, heap, initial_violations, all_violations,
                              pass1_violation_count, initial_relevant_files,
                              newly_discovered_files)
    /\ trace' = [trace EXCEPT !.temp_dirs_deleted = @ + TempDirsOf(checker)]
    /\ pc' = "Done"
    /\ UNCHANGED <<impl, prioritized_extensions, guideline_patterns,
                   guideline_idx, initial_relevant_files, refined_patterns,
                   second_pass_files, newly_discovered_files, heap,
                   initial_violations, all_violations, pass1_violation_count>>
    /\ UNCHANGED nonAuditVars

(***************************************************************************)
(* The exhaustive audit both implementations fall back to:                 *)
(* CodeAuditorAgent.scan_repository clones and scans every file of the     *)
(* clone with repo_root given; a failed clone yields its error dict, with  *)
(* no violations.                                                          *)
(***************************************************************************)
FullAudit ==
    /\ pc = "Fallback"
    /\ \E cloned \in BOOLEAN :
       \E files \in Orderings(IF cloned THEN ExistingFiles(Paths) ELSE {}) :
       \E env \in AuditScanEnvs(Range(files)) :
          LET res == ScanFilesAt(files, <<>>, env, DefaultChunkSize)
          IN  /\ result' = FullAuditResult(res.violations)
              /\ trace' = [trace EXCEPT
                              !.full_audits = @ + 1,
                              !.clones = @ + 1,
                              !.temp_dirs_created = @ + 1,
                              !.temp_dirs_deleted = @ + 1,
                              !.scans =
                                  IF cloned
                                  THEN Append(@, [pass |-> 0, files |-> files,
                                                  violations |-> res.violations])
                                  ELSE @]
    /\ pc' = "Done"
    /\ UNCHANGED <<impl, prioritized_extensions, guideline_patterns,
                   guideline_idx, checker, initial_relevant_files,
                   refined_patterns, second_pass_files, newly_discovered_files,
                   heap, initial_violations, all_violations,
                   pass1_violation_count>>
    /\ UNCHANGED nonAuditVars

AuditNext ==
    \/ DetermineFileTypes
    \/ GeneratePatterns
    \/ CloneAndIndex
    \/ ItemsRaises
    \/ DiscoverPass1Step
    \/ DiscoverPass1End
    \/ ScanPass1
    \/ RefinePatterns
    \/ SkipRefinement
    \/ DiscoverPass2
    \/ ScanPass2
    \/ Aggregate
    \/ FullAudit

(***************************************************************************)
(* legal_analyst_tool: the ingestion of one PDF into the persisted store   *)
(* (steps 1 to 4; retrieval and the answer leave the store alone).         *)
(***************************************************************************)

(* the PDFs, by the page_content of the chunks the loader and the splitter
   yield: a.pdf and b.pdf share a passage, c.pdf repeats one *)
Pdfs == {"a.pdf", "b.pdf", "c.pdf", "scan.pdf"}

(* scan.pdf has no text layer: the loader yields pages without text and
   the splitter no chunk *)
ChunkTexts(pdf) ==
    CASE pdf = "a.pdf" -> <<"t1", "t2">>
      [] pdf = "b.pdf" -> <<"t2", "t3">>
      [] pdf = "scan.pdf" -> <<>>
      [] OTHER -> <<"t4", "t4">>

(* text_splitter.split_documents(loader.load()) *)
SplitDocuments(pdf) ==
    [i \in DOMAIN ChunkTexts(pdf) |->
        [page_content |-> ChunkTexts(pdf)[i], source |-> pdf]]

(* hashlib.sha256(page_content.encode()).hexdigest()[:16]: equal texts get
   equal IDs, the texts of the model get different ones *)
ContentHash(text) ==
    CASE text = "t1" -> "6b86b273ff34fce1"
      [] text = "t2" -> "d4735e3a265e16ee"
      [] text = "t3" -> "4e07408562bedb8b"
      [] OTHER -> "4b227777d4dd1fc6"

ChunkIds(cs) == [i \in DOMAIN cs |-> ContentHash(cs[i].page_content)]

EmptyStore == [id \in {} |-> [page_content |-> "", source |-> ""]]

(* collection.upsert: every ID of the batch is written, the last chunk of
   an ID wins; the other entries stay *)
Upsert(store, cs, ids) ==
    [id \in DOMAIN store \cup Range(ids) |->
        IF id \in Range(ids)
        THEN cs[CHOOSE i \in DOMAIN ids :
                    ids[i] = id /\ \A j \in DOMAIN ids : j > i => ids[j] # id]
        ELSE store[id]]

(* _collection.get(ids=chunk_ids) and its handler: the stored IDs among
   chunk_ids, or the empty set when the lookup raises *)
ExistingIds(store, ids, get_ok) ==
    IF get_ok THEN Range(ids) \cap DOMAIN store ELSE {}

(* the indices of the chunks whose ID is not in existing_ids, in order *)
NewIndices(ids, existing_ids) ==
    SelectSeq([i \in DOMAIN ids |-> i], LAMBDA i : ids[i] \notin existing_ids)

MaxRetries == 3

RmtreeOutcomes == {"ok", "PermissionError", "OSError"}

(* a faulty variant: the first PermissionError already escalates *)
LastAttemptAlways(attempt) == TRUE

(* `attempt < max_retries - 1` is false *)
LastAttempt(attempt) == attempt >= MaxRetries - 1

(***************************************************************************)
(* The deletion loop: `for attempt in range(max_retries)` around           *)
(* shutil.rmtree.  A success leaves the loop; a PermissionError is retried *)
(* until the last attempt, which tries os.rename to a backup name and      *)
(* raises when that fails too; any other exception of rmtree leaves the    *)
(* call at once.  errors lists the exceptions of the failed attempts.      *)
(***************************************************************************)
RECURSIVE DeleteLoop(_, _, _, _)
DeleteLoop(attempt, outcomes, rename_ok, errors) ==
    LET outcome == outcomes[attempt + 1]
    IN  IF outcome = "ok"
        THEN [attempts |-> attempt + 1, errors |-> errors, rename |-> "none",
              outcome |-> "deleted"]
        ELSE IF outcome = "PermissionError"
        THEN IF ~LastAttempt(attempt)
             THEN DeleteLoop(attempt + 1, outcomes, rename_ok,
                             Append(errors, outcome))
             ELSE [attempts |-> attempt + 1, errors |-> Append(errors, outcome),
                   rename |-> IF rename_ok THEN "ok" ELSE "failed",
                   outcome |-> IF rename_ok THEN "renamed" ELSE "raised"]
        ELSE [attempts |-> attempt + 1, errors |-> Append(errors, outcome),
              rename |-> "none", outcome |-> "raised"]

NoDeletion == [attempts |-> 0, errors |-> <<>>, rename |-> "none",
               outcome |-> "none"]

(* use_existing_db after the interactive question, asked only when the
   directory exists and the argument is None; None is falsy otherwise *)
ResolveUseExistingDb(use, exists, answer) ==
    IF exists /\ use = "None" THEN answer ELSE use = "True"

(* the characters of a path, for os.path.basename and str.endswith *)
PathChars(path) ==
    CASE path = "a.pdf" -> <<"a", ".", "p", "d", "f">>
      [] path = "b.pdf" -> <<"b", ".", "p", "d", "f">>
      [] path = "c.pdf" -> <<"c", ".", "p", "d", "f">>
      [] path = "scan.pdf" -> <<"s", "c", "a", "n", ".", "p", "d", "f">>
      [] OTHER -> <<>>

(* os.path.basename: what follows the last separator *)
Basename(chars) ==
    LET seps == {i \in DOMAIN chars : chars[i] = "/"}
        last == IF seps = {} THEN 0
                ELSE CHOOSE i \in seps : \A j \in seps : j <= i
    IN  SubSeq(chars, last + 1, Len(chars))

(* str.endswith *)
EndsWith(chars, suffix) ==
    /\ Len(suffix) <= Len(chars)
    /\ SubSeq(chars, Len(chars) - Len(suffix) + 1, Len(chars)) = suffix

RetrieveK == 20

GlobalK == 5

ContextCap == 5

Take(n, seq) == SubSeq(seq, 1, Min(n, Len(seq)))

(* the questions, by the order of similarity of the texts to each *)
Questions == {"q1", "q2"}

Similarity(question) ==
    IF question = "q1" THEN <<"t1", "t2", "t3", "t4">>
    ELSE <<"t4", "t3", "t2", "t1">>

(* the stored IDs, most similar to the question first *)
Ranking(store, question) ==
    LET all == [i \in DOMAIN Similarity(question) |->
                   ContentHash(Similarity(question)[i])]
    IN  SelectSeq(all, LAMBDA id : id \in DOMAIN store)

(* retriever.invoke(question) with search_kwargs k: the k most similar
   stored chunks, best first *)
Retrieve(store, ranking, k) == [i \in DOMAIN Take(k, ranking) |-> store[ranking[i]]]

(* the list comprehension of the scoped mode, before its [:5] *)
FromCurrentPdf(docs, pdf) ==
    SelectSeq(docs, LAMBDA doc :
        EndsWith(PathChars(doc.source), Basename(PathChars(pdf))))

(* step 6: relevant_docs, the passages joined into the context *)
RelevantDocs(store, ranking, pdf, filter_by_current_pdf) ==
    IF filter_by_current_pdf
    THEN LET all_relevant_docs == Retrieve(store, ranking, RetrieveK)
             own == Take(ContextCap, FromCurrentPdf(all_relevant_docs, pdf))
         IN  IF own # <<>> THEN own ELSE Take(ContextCap, all_relevant_docs)
    ELSE Retrieve(store, ranking, GlobalK)

NoQuery == [pdf |-> "none", question |-> "none", filter_by_current_pdf |-> FALSE,
            relevant_docs |-> <<>>, answered |-> FALSE]

IngestIdle ==
    /\ db_exists = FALSE
    /\ vectorstore = EmptyStore
    /\ ingest_log = <<>>
    /\ query = NoQuery

IngestInit == IngestIdle

(***************************************************************************)
(* One call. The directory is deleted (or moved away) when it exists and   *)
(* is not to be kept; when neither works the call raises. Then either the  *)
(* existing store is loaded, the stored IDs are looked up and the other    *)
(* chunks are added, or a new store is made from all chunks. The embedding *)
(* or the store can make add_documents / from_documents raise. A call     *)
(* that got this far retrieves the passages for the question, scoped to   *)
(* the PDF or not, and answers from them.                                  *)
(***************************************************************************)
LegalAnalystTool ==
    /\ Len(ingest_log) < MaxIngests
    /\ \E pdf \in Pdfs, use \in {"True", "False", "None"}, answer \in BOOLEAN,
          outcomes \in [1..MaxRetries -> RmtreeOutcomes], rename_ok \in BOOLEAN,
          get_ok \in BOOLEAN, add_ok \in BOOLEAN,
          filter_by_current_pdf \in BOOLEAN, question \in Questions :
          LET use_existing_db == ResolveUseExistingDb(use, db_exists, answer)
              deleting == db_exists /\ ~use_existing_db
              deletion == IF deleting
                          THEN DeleteLoop(0, outcomes, rename_ok, <<>>)
                          ELSE NoDeletion
              locked == deletion.outcome = "raised"
              exists1 == db_exists /\ ~deleting
              store1 == IF deleting THEN EmptyStore ELSE vectorstore
              cs == SplitDocuments(pdf)
              chunk_ids == ChunkIds(cs)
              existing == exists1 /\ use_existing_db
              existing_ids == ExistingIds(store1, chunk_ids, get_ok)
              idx == IF existing THEN NewIndices(chunk_ids, existing_ids)
                     ELSE [i \in DOMAIN cs |-> i]
              new_chunks == [k \in DOMAIN idx |-> cs[idx[k]]]
              new_chunk_ids == [k \in DOMAIN idx |-> chunk_ids[idx[k]]]
              adding == ~existing \/ Len(new_chunks) > 0
              store2 == IF adding /\ add_ok
                        THEN Upsert(store1, new_chunks, new_chunk_ids)
                        ELSE store1
              entry == [pdf |-> pdf,
                        use_existing_db |-> use_existing_db,
                        path |-> CASE locked -> "locked"
                                   [] existing -> "existing"
                                   [] OTHER -> "new",
                        deletion |-> deletion,
                        store_at_ingestion |-> exists1,
                        get_failed |-> existing /\ ~get_ok,
                        before |-> vectorstore,
                        added |-> IF adding THEN new_chunk_ids ELSE <<>>,
                        after |-> store2,
                        raised |-> adding /\ ~add_ok,
                        error |-> IF adding /\ ~add_ok THEN "add_failed"
                                  ELSE "none"]
              failed == locked \/ entry.raised
          IN  /\ ~(db_exists /\ use = "None") => answer
              /\ \A i \in 1..MaxRetries : i > deletion.attempts => outcomes[i] = "ok"
              /\ deletion.rename = "none" => rename_ok
              /\ failed => filter_by_current_pdf /\ question = "q1"
              /\ ~existing => get_ok
              /\ ~adding => add_ok
              /\ IF locked
                 THEN /\ UNCHANGED <<db_exists, vectorstore>>
                      /\ get_ok /\ add_ok
                      /\ ingest_log' =
                            Append(ingest_log,
                                   [entry EXCEPT !.added = <<>>,
                                                 !.after = vectorstore,
                                                 !.raised = TRUE,
                                                 !.error = "cannot_delete"])
                 ELSE /\ db_exists' = TRUE
                      /\ vectorstore' = store2
                      /\ ingest_log' = Append(ingest_log, entry)
              /\ query' =
                    IF failed
                    THEN [NoQuery EXCEPT !.pdf = pdf]
                    ELSE [pdf |-> pdf,
                          question |-> question,
                          filter_by_current_pdf |-> filter_by_current_pdf,
                          relevant_docs |->
                              RelevantDocs(store2, Ranking(store2, question),
                                           pdf, filter_by_current_pdf),
                          answered |-> TRUE]
    /\ UNCHANGED <<chunkVars, scanVars, auditVars, qaVars, planVars, repoVars, cleanupVars, apiVars, streamVars>>

(***************************************************************************)
(* The repository Q&A session: GuardianAgentSimple (_run_qa_tool,          *)
(* setup_qa_session, ask_qa, cleanup_qa_session) and LangChainGuardianAgent *)
(* (stateful_repository_qa, _start_qa_session, _cleanup_qa_session,        *)
(* end_qa_session, get_session_info, run, clear_session_history).          *)
(***************************************************************************)
NoneUrl == "None"

RepoUrls == {"", "https://github.com/o/a", "https://github.com/o/b"}

(* the truth value Python gives a URL or None *)
Truthy(url) == url \notin {NoneUrl, ""}

(* a faulty variant: any active session answers *)
SameSessionAnyUrl(tool, url, repo_url) == tool # 0

(* `if self.qa_tool_instance and self.qa_repo_url == repo_url` *)
SameSession(tool, url, repo_url) == tool # 0 /\ url = repo_url

(* a new RepoQATool, its index built from `indexed` (NoneUrl: no index) *)
NewQaTool(indexed) == [indexed |-> indexed]

(* RepoQATool.ask_question: an error dict without an index or when the
   chain fails, an answer from the index otherwise *)
AskQuestion(tools, id, ask_ok) ==
    IF tools[id].indexed = NoneUrl \/ ~ask_ok
    THEN [status |-> "error", answer_from |-> NoneUrl]
    ELSE [status |-> "success", answer_from |-> tools[id].indexed]

(* what rmtree of self.qa_temp_dir leaves on disk *)
RemoveDir(dirs, d) == IF d = 0 THEN dirs ELSE [dirs EXCEPT ![d] = FALSE]

(* a faulty variant: the URL is not looked at *)
GetSessionInfoBlind(url) == "No active QA session"

(* get_session_info *)
GetSessionInfo(url) ==
    IF Truthy(url) THEN "Active QA session for" ELSE "No active QA session"

SessionFields == [tool |-> qa_tool_instance, url |-> qa_repo_url,
                  dir |-> qa_temp_dir, history |-> session_history]

NoQaCall == [op |-> "new", repo_url |-> NoneUrl, before |-> [tool |-> 0,
             url |-> NoneUrl, dir |-> 0, history |-> <<>>], asked |-> {},
             clones |-> 0, indexings |-> 0, status |-> "none",
             answer_from |-> NoneUrl]

QaCall(op, repo_url) ==
    [NoQaCall EXCEPT !.op = op, !.repo_url = repo_url, !.before = SessionFields]

QaIdle ==
    /\ qa_impl = "none"
    /\ qa_tool_instance = 0
    /\ qa_repo_url = NoneUrl
    /\ qa_temp_dir = 0
    /\ qa_tools = <<>>
    /\ qa_dirs = <<>>
    /\ session_history = <<>>
    /\ qa_call = NoQaCall

(* __init__ of either agent *)
QaInit ==
    /\ qa_impl \in {"simple", "langchain"}
    /\ qa_tool_instance = 0
    /\ qa_repo_url = NoneUrl
    /\ qa_temp_dir = 0
    /\ qa_tools = <<>>
    /\ qa_dirs = <<>>
    /\ session_history = <<>>
    /\ qa_call = NoQaCall

(* the outcomes of a clone followed by index_repository and a question:
   an empty URL cannot be cloned *)
QaOutcomes(repo_url) ==
    {o \in [clone_ok : BOOLEAN, index_ok : BOOLEAN, ask_ok : BOOLEAN] :
        /\ repo_url = "" => ~o.clone_ok
        /\ ~o.clone_ok => o.index_ok /\ o.ask_ok
        /\ ~o.index_ok => o.ask_ok}

(***************************************************************************)
(* GuardianAgentSimple._run_qa_tool: the session's tool answers a question *)
(* about the session's URL; any other URL gets a tool, a clone and an      *)
(* index of its own, and the clone is removed before the call returns.    *)
(***************************************************************************)
RunQaTool ==
    /\ qa_impl = "simple"
    /\ \E repo_url \in RepoUrls : \E o \in QaOutcomes(repo_url) :
          LET reuse == SameSession(qa_tool_instance, qa_repo_url, repo_url)
              id == Len(qa_tools) + 1
              indexed == o.clone_ok /\ o.index_ok
              tools1 == Append(qa_tools,
                               NewQaTool(IF indexed THEN repo_url ELSE NoneUrl))
          IN  IF repo_url = ""
              THEN /\ o.ask_ok
                   /\ qa_call' = [QaCall("qa", repo_url) EXCEPT !.status = "error"]
                   /\ UNCHANGED <<qa_tools, qa_dirs>>
              ELSE IF reuse
              THEN /\ o.clone_ok /\ o.index_ok
                   /\ qa_call' =
                         [QaCall("qa", repo_url) EXCEPT
                             !.asked = {qa_tool_instance},
                             !.status =
                                 AskQuestion(qa_tools, qa_tool_instance, o.ask_ok).status,
                             !.answer_from =
                                 AskQuestion(qa_tools, qa_tool_instance, o.ask_ok).answer_from]
                   /\ UNCHANGED <<qa_tools, qa_dirs>>
              ELSE /\ Len(qa_tools) < MaxQaTools
                   /\ qa_tools' = tools1
                   /\ qa_dirs' = Append(qa_dirs, FALSE)
                   /\ qa_call' =
                         [QaCall("qa", repo_url) EXCEPT
                             !.clones = 1,
                             !.indexings = IF o.clone_ok THEN 1 ELSE 0,
                             !.asked = IF indexed THEN {id} ELSE {},
                             !.status =
                                 IF indexed THEN AskQuestion(tools1, id, o.ask_ok).status
                                 ELSE "error",
                             !.answer_from =
                                 IF indexed
                                 THEN AskQuestion(tools1, id, o.ask_ok).answer_from
                                 ELSE NoneUrl]
    /\ UNCHANGED <<qa_impl, qa_tool_instance, qa_repo_url, qa_temp_dir,
                   session_history>>
    /\ UNCHANGED <<chunkVars, scanVars, auditVars, ingestVars, planVars, repoVars, cleanupVars, apiVars, streamVars>>

(***************************************************************************)
(* setup_qa_session: the old session is cleaned up, then tool, URL and     *)
(* directory are set, the repository cloned and indexed; a failure cleans  *)
(* the session up again.                                                   *)
(***************************************************************************)
SetupQaSession ==
    /\ qa_impl = "simple"
    /\ Len(qa_tools) < MaxQaTools
    /\ \E repo_url \in RepoUrls : \E o \in QaOutcomes(repo_url) :
          LET id == Len(qa_tools) + 1
              dir == Len(qa_dirs) + 1
              indexed == o.clone_ok /\ o.index_ok
          IN  /\ o.ask_ok
              /\ qa_tools' = Append(qa_tools,
                                NewQaTool(IF indexed THEN repo_url ELSE NoneUrl))
              /\ qa_dirs' = Append(RemoveDir(qa_dirs, qa_temp_dir), indexed)
              /\ qa_tool_instance' = IF indexed THEN id ELSE 0
              /\ qa_repo_url' = IF indexed THEN repo_url ELSE NoneUrl
              /\ qa_temp_dir' = IF indexed THEN dir ELSE 0
              /\ qa_call' =
                    [QaCall("setup", repo_url) EXCEPT
                        !.clones = 1,
                        !.indexings = IF o.clone_ok THEN 1 ELSE 0,
                        !.status = IF indexed THEN "success" ELSE "error"]
    /\ UNCHANGED <<qa_impl, session_history>>
    /\ UNCHANGED <<chunkVars, scanVars, auditVars, ingestVars, planVars, repoVars, cleanupVars, apiVars, streamVars>>

(* ask_qa *)
AskQa ==
    /\ qa_impl = "simple"
    /\ \E ask_ok \in BOOLEAN :
          IF qa_tool_instance = 0
          THEN /\ ask_ok
               /\ qa_call' = [QaCall("ask", NoneUrl) EXCEPT !.status = "no_session"]
          ELSE qa_call' =
                  [QaCall("ask", NoneUrl) EXCEPT
                      !.asked = {qa_tool_instance},
                      !.status =
                          AskQuestion(qa_tools, qa_tool_instance, ask_ok).status,
                      !.answer_from =
                          AskQuestion(qa_tools, qa_tool_instance, ask_ok).answer_from]
    /\ UNCHANGED <<qa_impl, qa_tool_instance, qa_repo_url, qa_temp_dir,
                   qa_tools, qa_dirs, session_history>>
    /\ UNCHANGED <<chunkVars, scanVars, auditVars, ingestVars, planVars, repoVars, cleanupVars, apiVars, streamVars>>

(***************************************************************************)
(* _cleanup_qa_session (cleanup_qa_session of the simple agent has the     *)
(* same body): the session's directory is removed, the three fields are    *)
(* set to None.                                                            *)
(***************************************************************************)
CleanupQaSession ==
    /\ qa_impl \in {"simple", "langchain"}
    /\ qa_dirs' = RemoveDir(qa_dirs, qa_temp_dir)
    /\ qa_tool_instance' = 0
    /\ qa_repo_url' = NoneUrl
    /\ qa_temp_dir' = 0
    /\ qa_call' = QaCall("cleanup", NoneUrl)
    /\ UNCHANGED <<qa_impl, qa_tools, session_history>>
    /\ UNCHANGED <<chunkVars, scanVars, auditVars, ingestVars, planVars, repoVars, cleanupVars, apiVars, streamVars>>

(***************************************************************************)
(* stateful_repository_qa with _start_qa_session: the session's tool       *)
(* answers a question about the session's URL (ask_question returns its    *)
(* errors, so the except branch is never taken); any other URL starts a    *)
(* new session: new tool, new directory, clone, index, and only then the   *)
(* URL is stored and the new tool asked.  A clone or index failure cleans  *)
(* the session up.  The directory of the session that is replaced is not   *)
(* removed.                                                                *)
(***************************************************************************)
StatefulRepositoryQa ==
    \E repo_url \in RepoUrls : \E o \in QaOutcomes(repo_url) :
        LET reuse == SameSession(qa_tool_instance, qa_repo_url, repo_url)
            id == Len(qa_tools) + 1
            dir == Len(qa_dirs) + 1
            indexed == o.clone_ok /\ o.index_ok
            tools1 == Append(qa_tools,
                             NewQaTool(IF indexed THEN repo_url ELSE NoneUrl))
        IN  IF reuse
            THEN /\ o.clone_ok /\ o.index_ok
                 /\ qa_call' =
                       [QaCall("qa", repo_url) EXCEPT
                           !.asked = {qa_tool_instance},
                           !.status =
                               AskQuestion(qa_tools, qa_tool_instance, o.ask_ok).status,
                           !.answer_from =
                               AskQuestion(qa_tools, qa_tool_instance, o.ask_ok).answer_from]
                 /\ UNCHANGED <<qa_tool_instance, qa_repo_url, qa_temp_dir,
                                qa_tools, qa_dirs>>
            ELSE /\ Len(qa_tools) < MaxQaTools
                 /\ qa_tools' = tools1
                 /\ qa_dirs' = Append(qa_dirs, indexed)
                 /\ qa_tool_instance' = IF indexed THEN id ELSE 0
                 /\ qa_repo_url' = IF indexed THEN repo_url ELSE NoneUrl
                 /\ qa_temp_dir' = IF indexed THEN dir ELSE 0
                 /\ qa_call' =
                       [QaCall("qa", repo_url) EXCEPT
                           !.clones = 1,
                           !.indexings = IF o.clone_ok THEN 1 ELSE 0,
                           !.asked = IF indexed THEN {id} ELSE {},
                           !.status =
                               IF indexed THEN AskQuestion(tools1, id, o.ask_ok).status
                               ELSE "error",
                           !.answer_from =
                               IF indexed
                               THEN AskQuestion(tools1, id, o.ask_ok).answer_from
                               ELSE NoneUrl]

(* the tool invoked on its own, as the tests do *)
InvokeRepositoryQa ==
    /\ qa_impl = "langchain"
    /\ StatefulRepositoryQa
    /\ UNCHANGED <<qa_impl, session_history>>
    /\ UNCHANGED <<chunkVars, scanVars, auditVars, ingestVars, planVars, repoVars, cleanupVars, apiVars, streamVars>>

(***************************************************************************)
(* run: the query is appended to the history, the agent executor answers   *)
(* (here with at most one call of stateful_repository_qa), and the         *)
(* response is appended unless the executor raised.                        *)
(***************************************************************************)
Run ==
    /\ qa_impl = "langchain"
    /\ Len(session_history) + 2 <= MaxHistory
    /\ \E raised \in BOOLEAN :
          session_history' =
              IF raised THEN Append(session_history, "query")
              ELSE session_history \o <<"query", "response">>
    /\ \/ StatefulRepositoryQa
       \/ /\ qa_call' = QaCall("run", NoneUrl)
          /\ UNCHANGED <<qa_tool_instance, qa_repo_url, qa_temp_dir, qa_tools,
                         qa_dirs>>
    /\ UNCHANGED qa_impl
    /\ UNCHANGED <<chunkVars, scanVars, auditVars, ingestVars, planVars, repoVars, cleanupVars, apiVars, streamVars>>

(* end_qa_session *)
EndQaSession ==
    /\ qa_impl = "langchain"
    /\ IF Truthy(qa_repo_url)
       THEN /\ qa_dirs' = RemoveDir(qa_dirs, qa_temp_dir)
            /\ qa_tool_instance' = 0
            /\ qa_repo_url' = NoneUrl
            /\ qa_temp_dir' = 0
            /\ qa_call' = [QaCall("end", NoneUrl) EXCEPT !.status = "ended"]
       ELSE /\ qa_call' = [QaCall("end", NoneUrl) EXCEPT !.status = "no_session"]
            /\ UNCHANGED <<qa_tool_instance, qa_repo_url, qa_temp_dir, qa_dirs>>
    /\ UNCHANGED <<qa_impl, qa_tools, session_history>>
    /\ UNCHANGED <<chunkVars, scanVars, auditVars, ingestVars, planVars, repoVars, cleanupVars, apiVars, streamVars>>

(* clear_session_history *)
ClearSessionHistory ==
    /\ qa_impl = "langchain"
    /\ session_history' = <<>>
    /\ qa_call' = QaCall("clear_history", NoneUrl)
    /\ UNCHANGED <<qa_impl, qa_tool_instance, qa_repo_url, qa_temp_dir,
                   qa_tools, qa_dirs>>
    /\ UNCHANGED <<chunkVars, scanVars, auditVars, ingestVars, planVars, repoVars, cleanupVars, apiVars, streamVars>>

(* a call of get_session_info *)
SessionInfo ==
    /\ qa_impl = "langchain"
    /\ qa_call' = [QaCall("session_info", NoneUrl) EXCEPT
                      !.status = GetSessionInfo(qa_repo_url)]
    /\ UNCHANGED <<qa_impl, qa_tool_instance, qa_repo_url, qa_temp_dir,
                   qa_tools, qa_dirs, session_history>>
    /\ UNCHANGED <<chunkVars, scanVars, auditVars, ingestVars, planVars, repoVars, cleanupVars, apiVars, streamVars>>

(***************************************************************************)
(* GuardianAgentSimple._execute_plan with _run_legal_analyzer and          *)
(* _run_code_auditor.  A plan is a dict: a function on the keys it holds.  *)
(***************************************************************************)
ToolNames == {"Legal_Analyzer", "Code_Auditor", "QA_Tool"}

DefaultBrief == "Check for code quality and security issues"

PdfPaths == {"None", "a.pdf", "missing.pdf"}

(* os.path.exists after the search of the possible paths *)
PathExists(pdf_path) == pdf_path = "a.pdf"

AuditModes == {"audit", "compliance", "hybrid"}

PlanRepoUrls == {"None", "https://github.com/o/a"}

(* dict.get(key, default) *)
Get(dict, key, default) == IF key \in DOMAIN dict THEN dict[key] ELSE default

(* dict[key] = value *)
Put(dict, key, value) ==
    [k \in DOMAIN dict \cup {key} |-> IF k = key THEN value ELSE dict[k]]

EmptyDict == [k \in {} |-> "None"]

SeqsUpTo(S, n) == UNION {[1..m -> S] : m \in 0..n}

(* the plans: execution_order, pdf_path and repo_url are always there,
   audit_mode is there or not *)
Plans ==
    LET base == [execution_order : SeqsUpTo(ToolNames, MaxPlanLen),
                 pdf_path : PdfPaths, repo_url : PlanRepoUrls]
    IN  base \cup
        {[execution_order |-> b.execution_order, pdf_path |-> b.pdf_path,
          repo_url |-> b.repo_url, audit_mode |-> m] :
            b \in base, m \in AuditModes}

(* what the legal tool can return for an existing PDF; the last is the
   message of the except branch *)
LegalOutcomes == {"brief A", "brief B", "Error in legal analysis"}

(* _run_legal_analyzer *)
RunLegalAnalyzer(pdf_path, outcome) ==
    IF ~Truthy(pdf_path)
    THEN [result |-> "Error: No PDF path provided", legal_tool_called |-> FALSE]
    ELSE IF ~PathExists(pdf_path)
    THEN [result |-> "Error: PDF not found", legal_tool_called |-> FALSE]
    ELSE [result |-> outcome, legal_tool_called |-> TRUE]

(* a faulty variant: the key is not looked at *)
ConstructUnchecked(class, api_key) == [class |-> class, raised |-> FALSE]

(* CodeAuditorAgent.__init__ and ComplianceChecker.__init__: ValueError
   when GOOGLE_API_KEY is missing or empty *)
Construct(class, api_key) == [class |-> class, raised |-> ~Truthy(api_key)]

NotConstructed == [class |-> "none", raised |-> FALSE]

(* a faulty variant: the mode of the plan is dropped *)
PlanModeDropped(p) == "audit"

(* `plan.get("audit_mode", "audit")` *)
PlanMode(p) == Get(p, "audit_mode", "audit")

(* _run_code_auditor: no URL is an error at once; "hybrid" is handed to
   _run_hybrid_audit, "compliance" constructs a ComplianceChecker and any
   other mode a CodeAuditorAgent, whose ValueError ends the call before a
   clone or a model call *)
RunCodeAuditor(repo_url, brief, mode, api_key) ==
    LET made == IF mode = "hybrid" THEN NotConstructed
                ELSE IF mode = "compliance"
                THEN Construct("ComplianceChecker", api_key)
                ELSE Construct("CodeAuditorAgent", api_key)
    IN  IF ~Truthy(repo_url)
        THEN [summary |-> "Error: No repository URL provided",
              dispatched |-> "none", constructed |-> NotConstructed,
              expensive |-> FALSE]
        ELSE [summary |-> IF made.raised THEN "Error in code" ELSE "results",
              dispatched |-> IF mode \in {"hybrid", "compliance"} THEN mode
                             ELSE "audit",
              constructed |-> made,
              expensive |-> ~made.raised]

PlanIdle ==
    /\ plan = EmptyDict
    /\ plan_i = 0
    /\ plan_results = EmptyDict
    /\ plan_log = <<>>
    /\ env_api_key = "None"

PlanInit ==
    /\ plan \in Plans
    /\ plan_i = 1
    /\ plan_results = EmptyDict
    /\ plan_log = <<>>
    /\ env_api_key \in {"None", "key"}

ExecutionOrder == Get(plan, "execution_order", <<>>)

AtTool(tool_name) ==
    /\ plan_i \in DOMAIN ExecutionOrder
    /\ ExecutionOrder[plan_i] = tool_name

(* the loop body for "Legal_Analyzer" *)
ExecuteLegalAnalyzer ==
    /\ AtTool("Legal_Analyzer")
    /\ \E outcome \in LegalOutcomes :
          LET pdf_path == Get(plan, "pdf_path", "None")
              r == RunLegalAnalyzer(pdf_path, outcome)
          IN  /\ ~r.legal_tool_called => outcome = "brief A"
              /\ plan_results' = Put(plan_results, "legal_brief", r.result)
              /\ plan_log' = Append(plan_log,
                    [tool |-> "Legal_Analyzer", step |-> plan_i,
                     pdf_path |-> pdf_path, result |-> r.result,
                     legal_tool_called |-> r.legal_tool_called])
    /\ plan_i' = plan_i + 1
    /\ UNCHANGED <<plan, env_api_key>>
    /\ UNCHANGED <<chunkVars, scanVars, auditVars, ingestVars, qaVars, repoVars, cleanupVars, apiVars, streamVars>>

(* the loop body for "Code_Auditor" *)
ExecuteCodeAuditor ==
    /\ AtTool("Code_Auditor")
    /\ LET brief == Get(plan_results, "legal_brief", DefaultBrief)
           mode == PlanMode(plan)
           repo_url == Get(plan, "repo_url", "None")
           r == RunCodeAuditor(repo_url, brief, mode, env_api_key)
       IN  /\ plan_results' = Put(Put(plan_results, "audit_results", r.summary),
                                  "audit_details", r.dispatched)
           /\ plan_log' = Append(plan_log,
                 [tool |-> "Code_Auditor", step |-> plan_i,
                  repo_url |-> repo_url, brief |-> brief, mode |-> mode,
                  dispatched |-> r.dispatched, constructed |-> r.constructed,
                  expensive |-> r.expensive, summary |-> r.summary])
    /\ plan_i' = plan_i + 1
    /\ UNCHANGED <<plan, env_api_key>>
    /\ UNCHANGED <<chunkVars, scanVars, auditVars, ingestVars, qaVars, repoVars, cleanupVars, apiVars, streamVars>>

(* the loop body for "QA_Tool" *)
ExecuteQaTool ==
    /\ AtTool("QA_Tool")
    /\ plan_results' = Put(plan_results, "qa_answer", "answer")
    /\ plan_log' = Append(plan_log,
          [tool |-> "QA_Tool", step |-> plan_i,
           repo_url |-> Get(plan, "repo_url", "None")])
    /\ plan_i' = plan_i + 1
    /\ UNCHANGED <<plan, env_api_key>>
    /\ UNCHANGED <<chunkVars, scanVars, auditVars, ingestVars, qaVars, repoVars, cleanupVars, apiVars, streamVars>>

(* the loop is over: `return results` *)
ExecutePlanReturn ==
    /\ plan_i = Len(ExecutionOrder) + 1
    /\ plan_i' = 0
    /\ UNCHANGED <<plan, plan_results, plan_log, env_api_key>>
    /\ UNCHANGED <<chunkVars, scanVars, auditVars, ingestVars, qaVars, repoVars, cleanupVars, apiVars, streamVars>>

(***************************************************************************)
(* GitHubRepoTool: clone_repository, the query operations and cleanup.     *)
(* A URL is the sequence of the segments its '/' separate.                 *)
(***************************************************************************)
GitUrls == {<<"o", "a">>, <<"p", "a.git">>, <<"o", "b">>, <<"o", "b", "">>}

(* repo_url.rstrip('/') *)
RECURSIVE RStripSlash(_)
RStripSlash(url) ==
    IF url # <<>> /\ url[Len(url)] = ""
    THEN RStripSlash(SubSeq(url, 1, Len(url) - 1))
    ELSE url

(* segment.replace('.git', '') *)
WithoutGit(segment) == IF segment = "a.git" THEN "a" ELSE segment

(* `repo_url.rstrip('/').split('/')[-1].replace('.git', '')` *)
RepoNameOf(url) ==
    LET stripped == RStripSlash(url)
    IN  IF stripped = <<>> THEN "" ELSE WithoutGit(stripped[Len(stripped)])

RepoNames == {RepoNameOf(url) : url \in GitUrls}

Absent == <<"absent">>

NoMetadata == [status |-> "none"]

(* `not self.current_repo_path or not self.current_repo_path.exists()` *)
NoRepository(path, dirs) == path = "None" \/ dirs[path] = Absent

QueryOps == {"get_repository_structure", "get_repository_summary",
             "search_files", "read_file", "get_file_list"}

(* the answer of a query without a repository *)
EmptyAnswer(op) ==
    IF op \in {"search_files", "get_file_list"} THEN "empty list"
    ELSE "No repository cloned"

NoRepoCall == [op |-> "new", status |-> "none", data_from |-> Absent,
               last_clone |-> "none", last_ok |-> Absent]

RepoIdle ==
    /\ current_repo_path = "None"
    /\ repo_metadata = NoMetadata
    /\ clone_dirs = <<>>
    /\ repo_call = NoRepoCall

(* __init__: base_clone_dir may hold clones of earlier runs *)
RepoInit ==
    /\ current_repo_path = "None"
    /\ repo_metadata = NoMetadata
    /\ clone_dirs \in {d \in [RepoNames -> GitUrls \cup {Absent}] :
                         \A n \in RepoNames :
                             d[n] # Absent => RepoNameOf(d[n]) = n}
    /\ repo_call = NoRepoCall

(***************************************************************************)
(* clone_repository: an existing directory of the same name is removed,    *)
(* then git clones; only a successful clone assigns current_repo_path and  *)
(* repo_metadata, a failed one returns an error dict.                      *)
(***************************************************************************)
CloneRepository ==
    /\ \E repo_url \in GitUrls, clone_ok \in BOOLEAN :
          LET repo_name == RepoNameOf(repo_url)
              removed == [clone_dirs EXCEPT ![repo_name] = Absent]
          IN  IF clone_ok
              THEN /\ clone_dirs' = [removed EXCEPT ![repo_name] = repo_url]
                   /\ current_repo_path' = repo_name
                   /\ repo_metadata' = [status |-> "success",
                                        repo_url |-> repo_url,
                                        repo_name |-> repo_name]
                   /\ repo_call' = [op |-> "clone_repository",
                                    status |-> "success", data_from |-> Absent,
                                    last_clone |-> "success",
                                    last_ok |-> repo_url]
              ELSE /\ clone_dirs' = removed
                   /\ UNCHANGED <<current_repo_path, repo_metadata>>
                   /\ repo_call' = [repo_call EXCEPT
                                       !.op = "clone_repository",
                                       !.status = "error",
                                       !.data_from = Absent,
                                       !.last_clone = "error"]
    /\ UNCHANGED <<chunkVars, scanVars, auditVars, ingestVars, qaVars, planVars, cleanupVars, apiVars, streamVars>>

(* get_repository_structure, get_repository_summary, search_files,
   read_file, get_file_list: the guard, then data of the directory *)
QueryRepository ==
    /\ \E op \in QueryOps :
          repo_call' =
              IF NoRepository(current_repo_path, clone_dirs)
              THEN [repo_call EXCEPT !.op = op, !.status = EmptyAnswer(op),
                                     !.data_from = Absent]
              ELSE [repo_call EXCEPT !.op = op, !.status = "data",
                                     !.data_from = clone_dirs[current_repo_path]]
    /\ UNCHANGED <<current_repo_path, repo_metadata, clone_dirs>>
    /\ UNCHANGED <<chunkVars, scanVars, auditVars, ingestVars, qaVars, planVars, cleanupVars, apiVars, streamVars>>

(* cleanup: when the directory is there it is removed and the two fields
   are reset; otherwise nothing happens *)
Cleanup ==
    /\ IF NoRepository(current_repo_path, clone_dirs)
       THEN UNCHANGED <<current_repo_path, repo_metadata, clone_dirs>>
       ELSE /\ clone_dirs' = [clone_dirs EXCEPT ![current_repo_path] = Absent]
            /\ current_repo_path' = "None"
            /\ repo_metadata' = NoMetadata
    /\ repo_call' = [repo_call EXCEPT !.op = "cleanup", !.status = "none",
                                      !.data_from = Absent,
                                      !.last_clone = "none"]
    /\ UNCHANGED <<chunkVars, scanVars, auditVars, ingestVars, qaVars, planVars, cleanupVars, apiVars, streamVars>>

(***************************************************************************)
(* The deletion of a temporary clone.  Each place that calls               *)
(* shutil.rmtree on a clone is a site, with the error handler it passes    *)
(* and with what surrounds the call.  A file of the clone is writable,     *)
(* read-only (its removal fails until the attribute is cleared) or locked  *)
(* (its removal fails also after that).                                    *)
(***************************************************************************)
DeletionSites ==
    {"CodeAuditorAgent.scan_repository", "ComplianceChecker.cleanup",
     "GitHubRepoTool.cleanup", "qa_tool.main", "repository_qa",
     "_cleanup_qa_session", "_run_qa_tool", "cleanup_qa_session",
     "audit_code_stream", "initialize_qa_session"}

(* the onerror argument of the site's rmtree call *)
Handler(site) ==
    CASE site \in {"CodeAuditorAgent.scan_repository",
                   "ComplianceChecker.cleanup", "qa_tool.main",
                   "_run_qa_tool", "cleanup_qa_session"} -> "chmod_retry"
      [] site = "GitHubRepoTool.cleanup" -> "chmod_if_unwritable"
      [] site \in {"audit_code_stream", "initialize_qa_session"} -> "ignore"
      [] OTHER -> "none"

(* the rmtree call stands in a try whose handler only prints a warning *)
Guarded(site) ==
    site \in {"CodeAuditorAgent.scan_repository", "ComplianceChecker.cleanup",
              "qa_tool.main", "_cleanup_qa_session", "_run_qa_tool",
              "cleanup_qa_session"}

(* the sites that delete the clone in the finally of a function that
   returns an answer *)
AnswerSites ==
    {"CodeAuditorAgent.scan_repository", "repository_qa", "_run_qa_tool",
     "audit_code_stream"}

FileKinds == {"writable", "read_only", "locked"}

CloneFiles == [1..2 -> FileKinds]

(* a faulty variant of the handler: no second removal *)
HandleRemoveReadonlyNoRetry(handler, kind) ==
    [chmod |-> handler \in {"chmod_retry", "chmod_if_unwritable"},
     retried |-> FALSE, removed |-> FALSE, raised |-> handler # "ignore"]

(***************************************************************************)
(* What happens when the removal of one file fails: without a handler      *)
(* rmtree raises; _handle_remove_readonly and the lambdas of the simple    *)
(* agent clear the attribute and call the removal again, which raises for  *)
(* a locked file; the handler of GitHubRepoTool does so only for a file    *)
(* that is not writable and re-raises otherwise; the handlers of the REST  *)
(* API do nothing.                                                         *)
(***************************************************************************)
HandleRemoveReadonly(handler, kind) ==
    CASE handler = "none" ->
            [chmod |-> FALSE, retried |-> FALSE, removed |-> FALSE, raised |-> TRUE]
      [] handler = "ignore" ->
            [chmod |-> FALSE, retried |-> FALSE, removed |-> FALSE, raised |-> FALSE]
      [] handler = "chmod_if_unwritable" /\ kind = "locked" ->
            [chmod |-> FALSE, retried |-> FALSE, removed |-> FALSE, raised |-> TRUE]
      [] OTHER ->
            [chmod |-> TRUE, retried |-> TRUE, removed |-> kind = "read_only",
             raised |-> kind = "locked"]

(* shutil.rmtree over the files from file i on *)
RECURSIVE Rmtree(_, _, _, _)
Rmtree(files, handler, i, acc) ==
    IF i > Len(files) THEN acc
    ELSE IF files[i] = "writable"
    THEN Rmtree(files, handler, i + 1, [acc EXCEPT !.removed = @ \cup {i}])
    ELSE LET h == HandleRemoveReadonly(handler, files[i])
             acc1 == [acc EXCEPT
                         !.removed = IF h.removed THEN @ \cup {i} ELSE @,
                         !.failed = @ \cup {i},
                         !.chmods = IF h.chmod THEN @ \cup {i} ELSE @,
                         !.retries = IF h.retried THEN @ \cup {i} ELSE @]
         IN  IF h.raised THEN [acc1 EXCEPT !.raised = TRUE]
             ELSE Rmtree(files, handler, i + 1, acc1)

RmtreeStart ==
    [removed |-> {}, failed |-> {}, chmods |-> {}, retries |-> {},
     raised |-> FALSE]

NoCleanupCall ==
    [site |-> "none", files |-> <<>>, answer_computed |-> FALSE,
     rmtree |-> RmtreeStart, escaped |-> FALSE, returned |-> "none"]

CleanupIdle == cleanup_call = NoCleanupCall

CleanupInit == cleanup_call = NoCleanupCall

(***************************************************************************)
(* One deletion.  An exception of rmtree escapes the site unless the call  *)
(* is guarded; in the finally of repository_qa it replaces the value being *)
(* returned and the outer handler turns it into an error string.           *)
(***************************************************************************)
DeleteClone ==
    /\ \E site \in DeletionSites, files \in CloneFiles, answer_computed \in BOOLEAN :
          LET r == Rmtree(files, Handler(site), 1, RmtreeStart)
              escaped == r.raised /\ ~Guarded(site)
          IN  /\ site \notin AnswerSites => ~answer_computed
              /\ site = "initialize_qa_session" => ~answer_computed
              /\ cleanup_call' =
                    [site |-> site, files |-> files,
                     answer_computed |-> answer_computed,
                     rmtree |-> r, escaped |-> escaped,
                     returned |->
                         IF site \in AnswerSites
                         THEN IF escaped \/ ~answer_computed THEN "error"
                              ELSE "answer"
                         ELSE IF escaped THEN "raised" ELSE "none"]
    /\ UNCHANGED <<chunkVars, scanVars, auditVars, ingestVars, qaVars, planVars, repoVars, apiVars, streamVars>>

(***************************************************************************)
(* The REST API: the Q&A session endpoints and the code-audit endpoint.    *)
(* A session ID is the number of the init request that made it.            *)
(***************************************************************************)
NoSessions == [id \in {} |-> 0]

NoApiCall ==
    [endpoint |-> "none", session_id |-> 0, raised |-> 0, status |-> 0,
     cloned |-> FALSE, before |-> NoSessions]

ApiCall(endpoint, session_id, raised, status, cloned) ==
    [endpoint |-> endpoint, session_id |-> session_id, raised |-> raised,
     status |-> status, cloned |-> cloned, before |-> chat_sessions]

ApiIdle ==
    /\ chat_sessions = NoSessions
    /\ api_dirs = <<>>
    /\ api_call = NoApiCall

ApiInit ==
    /\ chat_sessions = NoSessions
    /\ api_dirs = <<>>
    /\ api_call = NoApiCall

(* chat_sessions[session_id] = {...} of get_or_create_qa_session *)
WithSession(sessions, id, session) ==
    [k \in DOMAIN sessions \cup {id} |-> IF k = id THEN session ELSE sessions[k]]

(* del chat_sessions[session_id] *)
WithoutSession(sessions, id) == [k \in DOMAIN sessions \ {id} |-> sessions[k]]

(* a faulty variant: an HTTPException passes through *)
AuditCodeStatusPassing(raised) == raised

(* the handler of audit_code, `except Exception as e: raise
   HTTPException(status_code=500, ...)`: HTTPException is an Exception, so
   whatever was raised in the try leaves as 500 *)
AuditCodeStatus(raised) == IF raised = 200 THEN 200 ELSE 500

(* the handlers of ask_question: `except HTTPException: raise` first *)
AskQuestionStatus(raised) == raised

(***************************************************************************)
(* initialize_qa_session: the session is put into chat_sessions first,     *)
(* then the clone directory is made, the repository cloned and indexed.    *)
(* A failure removes the directory with ignore_errors and answers 500;     *)
(* the entry stays in chat_sessions.                                       *)
(***************************************************************************)
InitializeQaSession ==
    /\ Len(api_dirs) < MaxSessions
    /\ \E clone_ok \in BOOLEAN, index_ok \in BOOLEAN, removed \in BOOLEAN :
          LET session_id == Len(api_dirs) + 1
              ok == clone_ok /\ index_ok
          IN  /\ ~clone_ok => index_ok
              /\ ok => removed
              /\ chat_sessions' =
                    WithSession(chat_sessions, session_id,
                                [indexed |-> ok, messages |-> <<>>,
                                 temp_dir |-> IF ok THEN session_id ELSE 0])
              /\ api_dirs' = Append(api_dirs, ok \/ ~removed)
              /\ api_call' = ApiCall("initialize_qa_session", session_id,
                                     IF ok THEN 200 ELSE 500,
                                     IF ok THEN 200 ELSE 500, TRUE)
    /\ UNCHANGED <<chunkVars, scanVars, auditVars, ingestVars, qaVars, planVars,
                   repoVars, cleanupVars, streamVars>>

(***************************************************************************)
(* ask_question: 404 for an unknown session, 400 for one that is not       *)
(* indexed, 500 when the tool answers with an error; otherwise the         *)
(* question and the answer are appended to the messages.                   *)
(***************************************************************************)
ApiAskQuestion ==
    /\ \E session_id \in 1..MaxSessions, ask_ok \in BOOLEAN :
          LET raised == IF session_id \notin DOMAIN chat_sessions THEN 404
                        ELSE IF ~chat_sessions[session_id].indexed THEN 400
                        ELSE IF ~ask_ok THEN 500
                        ELSE 200
          IN  /\ raised \in {404, 400} => ask_ok
              /\ raised = 200 =>
                    Len(chat_sessions[session_id].messages) + 2 <= MaxMessages
              /\ chat_sessions' =
                    IF raised = 200
                    THEN [chat_sessions EXCEPT
                             ![session_id].messages = @ \o <<"user", "assistant">>]
                    ELSE chat_sessions
              /\ api_call' = ApiCall("ask_question", session_id, raised,
                                     AskQuestionStatus(raised), FALSE)
    /\ UNCHANGED api_dirs
    /\ UNCHANGED <<chunkVars, scanVars, auditVars, ingestVars, qaVars, planVars,
                   repoVars, cleanupVars, streamVars>>

(* get_chat_history *)
GetChatHistory ==
    /\ \E session_id \in 1..MaxSessions :
          api_call' = ApiCall("get_chat_history", session_id,
                              IF session_id \in DOMAIN chat_sessions THEN 200 ELSE 404,
                              IF session_id \in DOMAIN chat_sessions THEN 200 ELSE 404,
                              FALSE)
    /\ UNCHANGED <<chat_sessions, api_dirs>>
    /\ UNCHANGED <<chunkVars, scanVars, auditVars, ingestVars, qaVars, planVars,
                   repoVars, cleanupVars, streamVars>>

(* delete_session: the entry is deleted from the dict, nothing else *)
DeleteSession ==
    /\ \E session_id \in 1..MaxSessions :
          IF session_id \in DOMAIN chat_sessions
          THEN /\ chat_sessions' = WithoutSession(chat_sessions, session_id)
               /\ api_call' = ApiCall("delete_session", session_id, 200, 200, FALSE)
          ELSE /\ UNCHANGED chat_sessions
               /\ api_call' = ApiCall("delete_session", session_id, 404, 404, FALSE)
    /\ UNCHANGED api_dirs
    /\ UNCHANGED <<chunkVars, scanVars, auditVars, ingestVars, qaVars, planVars,
                   repoVars, cleanupVars, streamVars>>

TechnicalBriefs == {"None", "", "brief"}

(***************************************************************************)
(* audit_code: inside one try, HTTPException(404) for a PDF that does not  *)
(* exist, the legal tool for one that does, HTTPException(400) when there  *)
(* is no brief, then CodeAuditorAgent.scan_repository; session_id holds    *)
(* nothing here.                                                           *)
(***************************************************************************)
AuditCode ==
    /\ \E pdf_path \in PdfPaths, technical_brief \in TechnicalBriefs,
          legal \in LegalOutcomes, scan_ok \in BOOLEAN :
          LET with_pdf == Truthy(pdf_path)
              missing == with_pdf /\ ~PathExists(pdf_path)
              legal_raised == with_pdf /\ ~missing
                              /\ legal = "Error in legal analysis"
              brief == IF with_pdf THEN legal ELSE technical_brief
              no_brief == ~with_pdf /\ ~Truthy(technical_brief)
              raised == IF missing THEN 404
                        ELSE IF legal_raised THEN 500
                        ELSE IF no_brief THEN 400
                        ELSE IF ~scan_ok THEN 500
                        ELSE 200
              cloned == ~missing /\ ~legal_raised /\ ~no_brief
          IN  /\ ~(with_pdf /\ ~missing) => legal = "brief A"
              /\ with_pdf => technical_brief = "None"
              /\ ~cloned => scan_ok
              /\ api_call' =
                    [ApiCall("audit_code", 0, raised, AuditCodeStatus(raised),
                             cloned)
                     EXCEPT !.before = [pdf_path |-> pdf_path,
                                        technical_brief |-> technical_brief]]
    /\ UNCHANGED <<chat_sessions, api_dirs>>
    /\ UNCHANGED <<chunkVars, scanVars, auditVars, ingestVars, qaVars, planVars,
                   repoVars, cleanupVars, streamVars>>

(***************************************************************************)
(* The streaming audit endpoint audit_code_stream: event_generator, from   *)
(* one yield to the next.                                                  *)
(***************************************************************************)
Event(name, status, file) == [event |-> name, status |-> status, file |-> file]

Progress(status) == Event("progress", status, "")

(* the files of the clone *)
CloneFilePaths == ExistingFiles(Paths)

NoStream ==
    [pdf_path |-> "None", technical_brief |-> "None", remaining |-> <<>>,
     clones |-> 0, analysed |-> [p \in {} |-> 0], early |-> {}]

StreamIdle ==
    /\ stream_pc = "idle"
    /\ stream_events = <<>>
    /\ stream = NoStream

StreamInit ==
    /\ stream_pc = "start"
    /\ stream_events = <<>>
    /\ \E pdf_path \in PdfPaths :
          stream = [NoStream EXCEPT
                       !.pdf_path = pdf_path,
                       !.analysed = [p \in CloneFilePaths |-> 0]]

(* a faulty variant: the completion event of a file is missing *)
FileEventsNoCompletion(file) == <<Event("progress", "analyzing", file)>>

(* the two events around auditor._analyze_file *)
FileEvents(file) ==
    <<Event("progress", "analyzing", file),
      Event("progress", "file_complete", file)>>

(* one more analysis of every file of `files` *)
Analysed(analysed, files) ==
    [p \in DOMAIN analysed |-> analysed[p] + (IF p \in files THEN 1 ELSE 0)]

(***************************************************************************)
(* `if pdf_path:`: analyzing_pdf, then an error event for a PDF that is    *)
(* not there or when the legal tool raises, else pdf_analyzed.  The        *)
(* request has no technical_brief parameter.                               *)
(***************************************************************************)
StreamAnalyzePdf ==
    /\ stream_pc = "start"
    /\ \E legal \in LegalOutcomes \cup {""} :
          IF ~Truthy(stream.pdf_path)
          THEN /\ legal = "brief A"
               /\ stream_pc' = "briefed"
               /\ UNCHANGED <<stream_events, stream>>
          ELSE IF ~PathExists(stream.pdf_path)
          THEN /\ legal = "brief A"
               /\ stream_events' = <<Progress("analyzing_pdf"),
                                     Event("error", "", "")>>
               /\ stream_pc' = "closed"
               /\ UNCHANGED stream
          ELSE IF legal = "Error in legal analysis"
          THEN /\ stream_events' = <<Progress("analyzing_pdf"),
                                     Event("error", "", "")>>
               /\ stream_pc' = "closed"
               /\ UNCHANGED stream
          ELSE /\ stream_events' = <<Progress("analyzing_pdf"),
                                     Progress("pdf_analyzed")>>
               /\ stream' = [stream EXCEPT !.technical_brief = legal]
               /\ stream_pc' = "briefed"
    /\ UNCHANGED <<chunkVars, scanVars, auditVars, ingestVars, qaVars, planVars,
                   repoVars, cleanupVars, apiVars>>

(***************************************************************************)
(* `if not technical_brief:` ends the stream with an error event.          *)
(* Otherwise the cloning event is yielded and                              *)
(* scan_repository_with_progress runs auditor.scan_repository: a clone of  *)
(* its own and an analysis of every analysable file, before anything else  *)
(* is yielded; its result is not used.  CodeAuditorAgent raises without    *)
(* an API key, which the outer handler turns into an error event.          *)
(***************************************************************************)
StreamScanRepository ==
    /\ stream_pc = "briefed"
    /\ \E cloned \in BOOLEAN, api_key \in {"", "key"} :
          IF ~Truthy(stream.technical_brief)
             \/ Construct("CodeAuditorAgent", api_key).raised
          THEN /\ cloned
               /\ ~Truthy(stream.technical_brief) => Truthy(api_key)
               /\ stream_events' = Append(stream_events, Event("error", "", ""))
               /\ stream_pc' = "closed"
               /\ UNCHANGED stream
          ELSE LET files == IF cloned
                            THEN {p \in CloneFilePaths : ShouldAnalyzeFile(p)}
                            ELSE {}
               IN  /\ stream_events' = Append(stream_events, Progress("cloning"))
                   /\ stream' = [stream EXCEPT
                                    !.clones = @ + (IF cloned THEN 1 ELSE 0),
                                    !.analysed = Analysed(@, files),
                                    !.early = @ \cup files]
                   /\ stream_pc' = "cloning"
    /\ UNCHANGED <<chunkVars, scanVars, auditVars, ingestVars, qaVars, planVars,
                   repoVars, cleanupVars, apiVars>>

(* mkdtemp and git.Repo.clone_from, then the events cloned and scanning;
   a failed clone ends the stream with an error event *)
StreamClone ==
    /\ stream_pc = "cloning"
    /\ \E cloned \in BOOLEAN, order \in Orderings(CloneFilePaths) :
          IF cloned
          THEN /\ stream_events' = stream_events \o <<Progress("cloned"),
                                                      Progress("scanning")>>
               /\ stream' = [stream EXCEPT !.clones = @ + 1,
                                           !.remaining = order]
               /\ stream_pc' = "scanning"
          ELSE /\ order = CHOOSE o \in Orderings(CloneFilePaths) : TRUE
               /\ stream_events' = Append(stream_events, Event("error", "", ""))
               /\ stream_pc' = "closed"
               /\ UNCHANGED stream
    /\ UNCHANGED <<chunkVars, scanVars, auditVars, ingestVars, qaVars, planVars,
                   repoVars, cleanupVars, apiVars>>

(* one iteration of `for file_path in repo_path.rglob('*')` *)
StreamAnalyzeFile ==
    /\ stream_pc = "scanning"
    /\ stream.remaining # <<>>
    /\ LET file == Head(stream.remaining)
       IN  IF ShouldAnalyzeFile(file)
           THEN /\ stream_events' = stream_events \o FileEvents(file)
                /\ stream' = [stream EXCEPT
                                 !.remaining = Tail(@),
                                 !.analysed = Analysed(@, {file})]
           ELSE /\ stream' = [stream EXCEPT !.remaining = Tail(@)]
                /\ UNCHANGED stream_events
    /\ UNCHANGED stream_pc
    /\ UNCHANGED <<chunkVars, scanVars, auditVars, ingestVars, qaVars, planVars,
                   repoVars, cleanupVars, apiVars>>

(* the loop is over: the complete event, then the finally *)
StreamComplete ==
    /\ stream_pc = "scanning"
    /\ stream.remaining = <<>>
    /\ stream_events' = Append(stream_events, Event("complete", "", ""))
    /\ stream_pc' = "closed"
    /\ UNCHANGED stream
    /\ UNCHANGED <<chunkVars, scanVars, auditVars, ingestVars, qaVars, planVars,
                   repoVars, cleanupVars, apiVars>>

(***************************************************************************)
(* The events of the stream.                                               *)
(***************************************************************************)
StatusAt(i, status) ==
    /\ stream_events[i].event = "progress"
    /\ stream_events[i].status = status

Terminal(i) == stream_events[i].event \in {"complete", "error"}

(***************************************************************************)
(* C24: in every event stream of the streaming audit endpoint the cloning  *)
(* event precedes the scanning event, the scanning event precedes every    *)
(* analyzing event, each analyzing event of a file is directly followed by *)
(* the completion event of that file, and a terminal event (complete or    *)
(* error) is the last event of the stream, so there is at most one.        *)
(***************************************************************************)
C24_EventOrder ==
    LET n == Len(stream_events)
    IN  /\ \A j \in 1..n :
              StatusAt(j, "scanning") => \E i \in 1..(j - 1) : StatusAt(i, "cloning")
        /\ \A k \in 1..n :
              StatusAt(k, "analyzing") => \E j \in 1..(k - 1) : StatusAt(j, "scanning")
        /\ \A k \in 1..n :
              StatusAt(k, "analyzing") =>
                  /\ k < n
                  /\ StatusAt(k + 1, "file_complete")
                  /\ stream_events[k + 1].file = stream_events[k].file
        /\ \A i \in 1..n : Terminal(i) => i = n

(* a stream that analysed two files and ended with complete *)
C24_Witness ==
    /\ stream_pc = "closed"
    /\ stream_events # <<>>
    /\ stream_events[Len(stream_events)].event = "complete"
    /\ Cardinality({k \in 1..Len(stream_events) : StatusAt(k, "analyzing")}) = 2

(* a stream that ended with an error after the cloning event *)
C24_WitnessError ==
    /\ stream_pc = "closed"
    /\ Len(stream_events) > 1
    /\ stream_events[Len(stream_events)].event = "error"
    /\ \E i \in 1..Len(stream_events) : StatusAt(i, "cloning")

(***************************************************************************)
(* C25: during one streaming audit request the repository is cloned once,  *)
(* each analysable file is analysed by the Line Auditor exactly once when  *)
(* the stream completes, and no file is analysed before the cloned and     *)
(* scanning events have been emitted.                                      *)
(***************************************************************************)
C25_OneCloneOneAnalysis ==
    /\ stream.clones <= 1
    /\ stream.early = {}
    /\ \A p \in DOMAIN stream.analysed :
          /\ stream.analysed[p] <= 1
          /\ (/\ stream_pc = "closed"
              /\ stream_events # <<>>
              /\ stream_events[Len(stream_events)].event = "complete"
              /\ ShouldAnalyzeFile(p)) => stream.analysed[p] = 1

(***************************************************************************)
(* The specifications.                                                     *)
(***************************************************************************)
InitChunk == ChunkInit /\ ScanIdle /\ AuditIdle /\ IngestIdle /\ QaIdle /\ PlanIdle /\ RepoIdle
    /\ CleanupIdle /\ ApiIdle /\ StreamIdle

NextChunk == SplitCall /\ UNCHANGED <<scanVars, auditVars, ingestVars, qaVars, planVars, repoVars, cleanupVars, apiVars, streamVars>>

SpecChunk == InitChunk /\ [][NextChunk]_vars

InitScan == ScanInit /\ ChunkIdle /\ AuditIdle /\ IngestIdle /\ QaIdle /\ PlanIdle /\ RepoIdle
    /\ CleanupIdle /\ ApiIdle /\ StreamIdle

NextScan == ScanFilesCall /\ UNCHANGED <<chunkVars, auditVars, ingestVars, qaVars, planVars, repoVars, cleanupVars, apiVars, streamVars>>

SpecScan == InitScan /\ [][NextScan]_vars

Init == AuditInit /\ ChunkIdle /\ ScanIdle /\ IngestIdle /\ QaIdle /\ PlanIdle /\ RepoIdle
    /\ CleanupIdle /\ ApiIdle /\ StreamIdle

Next == AuditNext

Spec == Init /\ [][Next]_vars

InitIngest == IngestInit /\ ChunkIdle /\ ScanIdle /\ AuditIdle /\ QaIdle /\ PlanIdle /\ RepoIdle
    /\ CleanupIdle /\ ApiIdle /\ StreamIdle

NextIngest == LegalAnalystTool

SpecIngest == InitIngest /\ [][NextIngest]_vars

InitQA == QaInit /\ ChunkIdle /\ ScanIdle /\ AuditIdle /\ IngestIdle /\ PlanIdle /\ RepoIdle
    /\ CleanupIdle /\ ApiIdle /\ StreamIdle

NextQA ==
    \/ RunQaTool
    \/ SetupQaSession
    \/ AskQa
    \/ CleanupQaSession
    \/ InvokeRepositoryQa
    \/ Run
    \/ EndQaSession
    \/ ClearSessionHistory
    \/ SessionInfo

SpecQA == InitQA /\ [][NextQA]_vars

InitPlan ==
    PlanInit /\ ChunkIdle /\ ScanIdle /\ AuditIdle /\ IngestIdle /\ QaIdle /\ RepoIdle
    /\ CleanupIdle /\ ApiIdle /\ StreamIdle

NextPlan ==
    \/ ExecuteLegalAnalyzer
    \/ ExecuteCodeAuditor
    \/ ExecuteQaTool
    \/ ExecutePlanReturn

SpecPlan == InitPlan /\ [][NextPlan]_vars

InitRepo ==
    RepoInit /\ ChunkIdle /\ ScanIdle /\ AuditIdle /\ IngestIdle /\ QaIdle /\ PlanIdle
    /\ CleanupIdle /\ ApiIdle /\ StreamIdle

NextRepo == CloneRepository \/ QueryRepository \/ Cleanup

SpecRepo == InitRepo /\ [][NextRepo]_vars

InitCleanup ==
    CleanupInit /\ ChunkIdle /\ ScanIdle /\ AuditIdle /\ IngestIdle /\ QaIdle
    /\ PlanIdle /\ RepoIdle /\ ApiIdle /\ StreamIdle

NextCleanup == DeleteClone

SpecCleanup == InitCleanup /\ [][NextCleanup]_vars

InitApi ==
    ApiInit /\ ChunkIdle /\ ScanIdle /\ AuditIdle /\ IngestIdle /\ QaIdle
    /\ PlanIdle /\ RepoIdle /\ CleanupIdle /\ StreamIdle

NextApi ==
    \/ InitializeQaSession
    \/ ApiAskQuestion
    \/ GetChatHistory
    \/ DeleteSession
    \/ AuditCode

SpecApi == InitApi /\ [][NextApi]_vars

InitStream ==
    StreamInit /\ ChunkIdle /\ ScanIdle /\ AuditIdle /\ IngestIdle /\ QaIdle
    /\ PlanIdle /\ RepoIdle /\ CleanupIdle /\ ApiIdle

NextStream ==
    \/ StreamAnalyzePdf
    \/ StreamScanRepository
    \/ StreamClone
    \/ StreamAnalyzeFile
    \/ StreamComplete

SpecStream == InitStream /\ [][NextStream]_vars

(***************************************************************************)
(* Claims about the Line Auditor.                                          *)
(***************************************************************************)
LineCount(text) == Cardinality({i \in DOMAIN text : text[i] = NL}) + 1

CeilDiv(a, b) == (a + b - 1) \div b

ChunkRanges(cs) == [i \in 1..Len(cs) |-> <<cs[i].start_line, cs[i].end_line>>]

(* C4: _split_into_chunks on a file of L lines (L = the number of segments
   content.split('\n') yields, newlines + 1) with chunk size C returns
   ceil(L / C) chunks; chunk i spans lines (i-1)*C + 1 .. min(i*C, L) and
   holds exactly those lines, consecutive chunks are adjacent, the first
   starts at 1 and the last ends at L; the 65-line file at chunk size 30
   yields the ranges [1,30], [31,60], [61,65]. *)
C4_ChunksPartitionLines ==
    chunk_pc = "split" =>
        LET L == LineCount(content)
            C == chunk_size
        IN  /\ Len(chunks) = CeilDiv(L, C)
            /\ \A i \in 1..Len(chunks) :
                  /\ chunks[i].start_line = (i - 1) * C + 1
                  /\ chunks[i].end_line = Min(i * C, L)
                  /\ chunks[i].start_line <= chunks[i].end_line
                  /\ SplitLines(chunks[i].content)
                        = SubSeq(SplitLines(content), chunks[i].start_line,
                                 chunks[i].end_line)
            /\ \A i \in 1..(Len(chunks) - 1) :
                  chunks[i + 1].start_line = chunks[i].end_line + 1
            /\ chunks[1].start_line = 1
            /\ chunks[Len(chunks)].end_line = L
            /\ (LineCount(content) = 65 /\ chunk_size = 30
                  => ChunkRanges(chunks) = <<<<1, 30>>, <<31, 60>>, <<61, 65>>>>)

C4_Witness ==
    /\ chunk_pc = "split"
    /\ LineCount(content) = 65
    /\ chunk_size = 30
    /\ Len(chunks) = 3

(* the chunk analyses scan_files must issue: every chunk of every file of
   the list that is a file, passes _should_analyze_file and can be read *)
RECURSIVE ExpectedCalls(_, _, _, _)
ExpectedCalls(paths, k, unreadable, size) ==
    IF k > Len(paths) THEN <<>>
    ELSE LET p == paths[k]
             cs == SplitIntoChunks(FileContent(p),
                                   RelativeTo(p, InferRepoRoot(paths)), size)
         IN  (IF Exists(p) /\ ShouldAnalyzeFile(p) /\ p \notin unreadable
              THEN [i \in 1..Len(cs) |->
                       <<cs[i].file_path, cs[i].start_line, cs[i].end_line>>]
              ELSE <<>>)
             \o ExpectedCalls(paths, k + 1, unreadable, size)

ViolationsOfChunk(vs, file, line) ==
    Cardinality({i \in DOMAIN vs : vs[i].file = file /\ vs[i].line = line})

ScannedFiles == Analysable(Range(file_paths)) \ scan_env.unreadable

(* C3: in one scan_files call, a chunk whose response is not parseable (or
   whose analysis raises) contributes zero violations, a chunk answered
   with a list of n violation objects contributes n, and one chunk analysis
   is issued for every chunk of every analysed file, in order, whichever
   chunks failed. *)
C3_ChunkFailureIsolated ==
    scan_pc = "scanned" =>
        /\ scan_result.calls
              = ExpectedCalls(file_paths, 1, scan_env.unreadable, DefaultChunkSize)
        /\ \A key \in ChunkKeys(ScannedFiles, DefaultChunkSize) :
              LET p == key[1]
                  c == SplitIntoChunks(FileContent(p),
                          RelativeTo(p, InferRepoRoot(file_paths)),
                          DefaultChunkSize)[key[2]]
                  resp == scan_env.resp[key]
              IN  ViolationsOfChunk(scan_result.violations, c.file_path, c.start_line)
                    = IF resp.kind = "list" THEN Len(resp.items) ELSE 0
        /\ scan_result.total_violations = Len(scan_result.violations)

C3_Witness ==
    /\ scan_pc = "scanned"
    /\ file_paths = <<"src/a.py", "b.py">>
    /\ scan_env.unreadable = {}
    /\ scan_env.resp[<<"src/a.py", 1>>].kind = "bad_json"
    /\ Len(scan_env.resp[<<"src/a.py", 2>>].items) = 1
    /\ Len(scan_env.resp[<<"b.py", 1>>].items) = 1
    /\ Len(scan_result.calls) = 3
    /\ scan_result.total_violations = 2

(***************************************************************************)
(* Claims about the hybrid audit.                                          *)
(***************************************************************************)
ScansOfPass(n) == {i \in DOMAIN trace.scans : trace.scans[i].pass = n}

(* the list the Line Auditor returned in pass n; empty when it was not run *)
ReturnedInPass(n) ==
    IF ScansOfPass(n) = {} THEN <<>>
    ELSE trace.scans[CHOOSE i \in ScansOfPass(n) : TRUE].violations

Pass1Over ==
    \/ pc \in {"Pass1Scanned", "PatternsRefined", "Pass2Discovered", "Pass2Done"}
    \/ pc = "Done" /\ result.path = "hybrid"

(* C1: in every state of a hybrid run the pass-2 file set is exactly the
   files the refined patterns discovered minus the pass-1 candidate set,
   and every file handed to the Line Auditor in pass 2 is one of them that
   exists, so none is in the pass-1 candidate set. *)
C1_Pass2FilesExclusive ==
    /\ newly_discovered_files = second_pass_files \ initial_relevant_files
    /\ \A i \in ScansOfPass(2) :
          /\ Range(trace.scans[i].files) = ExistingFiles(newly_discovered_files)
          /\ Range(trace.scans[i].files) \cap initial_relevant_files = {}

C1_Witness ==
    /\ ScansOfPass(2) # {}
    /\ second_pass_files \cap initial_relevant_files # {}

(* C2: once pass 1 is over with zero violations, the run makes no
   refinement call, no pass-2 discovery and no pass-2 scan, and the result
   it returns is the pass-1-only result: no violations, all violation
   counts and the pass-2 file count zero. *)
C2_ShortCircuit ==
    (Pass1Over /\ ReturnedInPass(1) = <<>>) =>
        /\ trace.refine_calls = 0
        /\ trace.check_patterns2 = 0
        /\ ScansOfPass(2) = {}
        /\ pc = "Done" =>
              /\ result.violations = ReturnedInPass(1)
              /\ result.total_violations = 0
              /\ result.pass1_violations = 0
              /\ result.pass2_violations = 0
              /\ result.pass2_files = 0
              /\ result.pass1_files = Cardinality(initial_relevant_files)

C2_Witness ==
    /\ pc = "Done"
    /\ result.path = "hybrid"
    /\ ScansOfPass(1) # {}
    /\ ReturnedInPass(1) = <<>>

(* C5: when pattern generation fails (the call raises, the response is
   empty, or it is no JSON after fence stripping) the run goes to the
   exhaustive audit: no clone-and-index of the checker, no File Discoverer
   call, and the result returned is that of one scan_repository call, whose
   scan (when the clone succeeds) covers every file of the repository. *)
C5_PatternFailureFallsBack ==
    trace.pattern_response \in {"llm_error", "empty", "bad_json"} =>
        /\ pc \in {"Fallback", "Done"}
        /\ trace.check_patterns1 = 0
        /\ trace.check_patterns2 = 0
        /\ checker = CleanChecker
        /\ pc = "Done" =>
              /\ result.path = "audit"
              /\ trace.full_audits = 1
              /\ Len(trace.scans) <= 1
              /\ \A i \in DOMAIN trace.scans :
                    /\ Range(trace.scans[i].files) = ExistingFiles(Paths)
                    /\ result.violations = trace.scans[i].violations
              /\ result.total_violations = Len(result.violations)

C5_Witness ==
    /\ pc = "Done"
    /\ trace.pattern_response = "bad_json"
    /\ result.path = "audit"
    /\ Len(result.violations) > 0

IsPrefix(a, b) == Len(a) <= Len(b) /\ SubSeq(b, 1, Len(a)) = a

(* C6: every finished hybrid run returns an AuditResult with repository,
   total_violations, violations and scan_statistics, no failure escapes as
   an exception, and the violations pass 1 found are in the result. *)
C6_AlwaysAuditResult ==
    pc = "Done" =>
        /\ result.path # "error"
        /\ AuditResultKeys \subseteq result.keys
        /\ IsPrefix(ReturnedInPass(1), result.violations)

(* C7: when pass-1 discovery ran and found no file, the result carries
   total_violations = 0 and both per-pass file counts 0, and the Line
   Auditor was never invoked. *)
C7_NoFilesResult ==
    (pc = "Done" /\ trace.discovery1_done /\ initial_relevant_files = {}) =>
        /\ {"total_violations", "scan_statistics"} \subseteq result.keys
        /\ result.total_violations = 0
        /\ result.pass1_files = 0
        /\ result.pass2_files = 0
        /\ trace.scans = <<>>

(* C8: in the result of a hybrid run, pass1_violations is the number of
   violations the pass-1 scan returned and pass2_violations the number the
   pass-2 scan returned. *)
C8_PerPassCounts ==
    (pc = "Done" /\ result.path = "hybrid") =>
        /\ result.pass1_violations = Len(ReturnedInPass(1))
        /\ result.pass2_violations = Len(ReturnedInPass(2))

(* C9: the violations of the result of a hybrid run are the list pass 1
   returned followed by the list pass 2 returned, nothing removed or
   reordered; total_violations is its length and the sum of the two
   per-pass counts of the result. *)
C9_ViolationsConcatenated ==
    (pc = "Done" /\ result.path = "hybrid") =>
        /\ result.violations = ReturnedInPass(1) \o ReturnedInPass(2)
        /\ result.total_violations = Len(result.violations)
        /\ result.total_violations
              = result.pass1_violations + result.pass2_violations

C9_Witness ==
    /\ pc = "Done"
    /\ result.path = "hybrid"
    /\ Len(ReturnedInPass(1)) > 0
    /\ Len(ReturnedInPass(2)) > 0

(***************************************************************************)
(* Claims about legal_analyst_tool.                                        *)
(***************************************************************************)

(* C10: in every call with use_existing_db true, no chunk whose ID was
   stored before the call is handed to the store again, every stored chunk
   is still stored, unchanged, after the call, and when all chunks of the
   document were stored before the call (the document is ingested again)
   the call adds nothing and the store's chunk count stays the same. *)
C10_IdempotentIngestion ==
    \A n \in DOMAIN ingest_log :
        LET e == ingest_log[n]
            ids == ChunkIds(SplitDocuments(e.pdf))
        IN  e.use_existing_db =>
               /\ \A k \in DOMAIN e.added : e.added[k] \notin DOMAIN e.before
               /\ \A id \in DOMAIN e.before :
                     id \in DOMAIN e.after /\ e.after[id] = e.before[id]
               /\ Range(ids) \subseteq DOMAIN e.before =>
                     /\ e.added = <<>>
                     /\ Cardinality(DOMAIN e.after) = Cardinality(DOMAIN e.before)

(* C11: when a call in scoped mode (filter_by_current_pdf true) has
   answered, every passage of its context has the processed PDF as its
   metadata source, and the context holds at most 5 passages. *)
C11_ScopedContext ==
    (query.answered /\ query.filter_by_current_pdf) =>
        /\ Len(query.relevant_docs) <= ContextCap
        /\ \A i \in DOMAIN query.relevant_docs :
              query.relevant_docs[i].source = query.pdf

(* C18: a call whose lookup of the stored chunk IDs failed ends with a
   store-unavailable error and has handed no chunk to the store. *)
C18_StoreFailureSurfaced ==
    \A n \in DOMAIN ingest_log :
        ingest_log[n].get_failed =>
            /\ ingest_log[n].raised
            /\ ingest_log[n].error = "store_unavailable"
            /\ ingest_log[n].added = <<>>

(***************************************************************************)
(* More claims about the hybrid audit.                                     *)
(***************************************************************************)

(* C12: when an audit has returned, every temporary clone directory it
   created has been deleted. *)
C12_TempDirsDeleted ==
    pc = "Done" => trace.temp_dirs_deleted = trace.temp_dirs_created

(***************************************************************************)
(* More claims about the Line Auditor.                                     *)
(***************************************************************************)

(* C13: every violation a scan returns carries, under file and line and
   under the legacy keys file_path and line_number, the file path and the
   start line of a chunk that was analysed, whatever the model wrote under
   those keys; so its line is the first line of a chunk, 1 modulo the
   chunk size. *)
C13_ViolationCarriesChunkPosition ==
    scan_pc = "scanned" =>
        \A i \in DOMAIN scan_result.violations :
            LET v == scan_result.violations[i]
            IN  /\ \E k \in DOMAIN scan_result.calls :
                      /\ v.file = scan_result.calls[k][1]
                      /\ v.line = scan_result.calls[k][2]
                /\ v.file_path = v.file
                /\ v.line_number = v.line
                /\ (v.line - 1) % DefaultChunkSize = 0

C13_Witness ==
    /\ scan_pc = "scanned"
    /\ \E i \in DOMAIN scan_result.violations :
          scan_result.violations[i].line = DefaultChunkSize + 1

(***************************************************************************)
(* Claims about the Q&A session.                                           *)
(***************************************************************************)
CurrentSession ==
    [tool |-> qa_tool_instance, url |-> qa_repo_url, dir |-> qa_temp_dir]

SessionOf(fields) == [tool |-> fields.tool, url |-> fields.url, dir |-> fields.dir]

(* C14: a question asked through the Q&A tool while a session is active is
   answered by the session's tool, with no clone and no indexing and with
   the session fields unchanged, when it names the session's URL; when it
   names another URL the session's tool is not asked, and an answer comes
   from an index of the URL that was named. *)
C14_SessionKeyedByUrl ==
    (qa_call.op = "qa" /\ qa_call.before.tool # 0) =>
        /\ qa_call.repo_url = qa_call.before.url =>
              /\ qa_call.asked = {qa_call.before.tool}
              /\ qa_call.clones = 0
              /\ qa_call.indexings = 0
              /\ CurrentSession = SessionOf(qa_call.before)
              /\ qa_call.answer_from \in {NoneUrl, qa_call.before.url}
        /\ qa_call.repo_url # qa_call.before.url =>
              /\ qa_call.before.tool \notin qa_call.asked
              /\ qa_call.answer_from \in {NoneUrl, qa_call.repo_url}

C14_Witness ==
    /\ qa_call.op = "qa"
    /\ qa_call.before.tool # 0
    /\ qa_call.repo_url = qa_call.before.url
    /\ qa_call.status = "success"
    /\ Len(qa_tools) = 1

(* C16: in LangChainGuardianAgent a new agent has no QA tool, no QA URL and
   an empty history; after _cleanup_qa_session tool, URL and directory are
   unset and the history is what it was; after clear_session_history the
   history is empty and the QA session fields are what they were; and
   get_session_info answers "No active QA session" exactly when the URL is
   unset. *)
C16_SessionStateFrames ==
    qa_impl = "langchain" =>
        /\ qa_call.op = "new" =>
              /\ qa_tool_instance = 0
              /\ qa_repo_url = NoneUrl
              /\ session_history = <<>>
        /\ qa_call.op = "cleanup" =>
              /\ qa_tool_instance = 0
              /\ qa_repo_url = NoneUrl
              /\ qa_temp_dir = 0
              /\ session_history = qa_call.before.history
        /\ qa_call.op = "clear_history" =>
              /\ session_history = <<>>
              /\ CurrentSession = SessionOf(qa_call.before)
        /\ qa_call.op = "session_info" =>
              (qa_call.status = "No active QA session" <=> qa_repo_url = NoneUrl)
        /\ GetSessionInfo(qa_repo_url) = "No active QA session"
              <=> qa_repo_url = NoneUrl

C16_Witness ==
    /\ qa_impl = "langchain"
    /\ qa_call.op = "cleanup"
    /\ qa_call.before.tool # 0
    /\ qa_call.before.url # NoneUrl
    /\ qa_call.before.dir # 0
    /\ qa_call.before.history # <<>>

(***************************************************************************)
(* Claims about the execution of a plan.                                   *)
(***************************************************************************)
(* the steps before step k that ran the Legal_Analyzer *)
LegalStepsBefore(k) ==
    {j \in 1..(k - 1) : plan_log[j].tool = "Legal_Analyzer"}

SetMax(S) == CHOOSE x \in S : \A y \in S : y <= x

(* C15: the k-th tool call of _execute_plan is the k-th name of
   execution_order, and when the loop is over every name has had its call;
   each Code_Auditor call gets the plan's repo_url, the plan's audit_mode
   (a "hybrid" plan with a URL reaches the hybrid audit), and as brief the
   result of the latest Legal_Analyzer step before it, or "Check for code
   quality and security issues" when there is none. *)
C15_PlanOrderAndArguments ==
    plan_i # 0 \/ plan_log # <<>> =>
        /\ Len(plan_log) <= Len(ExecutionOrder)
        /\ plan_i = 0 => Len(plan_log) = Len(ExecutionOrder)
        /\ plan_i # 0 => Len(plan_log) = plan_i - 1
        /\ \A k \in DOMAIN plan_log :
              LET c == plan_log[k]
              IN  /\ c.tool = ExecutionOrder[k]
                  /\ c.step = k
                  /\ c.tool = "Code_Auditor" =>
                        /\ c.repo_url = plan.repo_url
                        /\ "audit_mode" \in DOMAIN plan => c.mode = plan.audit_mode
                        /\ c.mode = "hybrid" /\ Truthy(c.repo_url) =>
                              c.dispatched = "hybrid"
                        /\ c.brief =
                              IF LegalStepsBefore(k) = {} THEN DefaultBrief
                              ELSE plan_log[SetMax(LegalStepsBefore(k))].result

C15_Witness ==
    /\ plan_i = 0
    /\ Len(plan_log) = 3
    /\ plan_log[1].tool = "Legal_Analyzer"
    /\ plan_log[1].result = "brief A"
    /\ plan_log[2].tool = "Legal_Analyzer"
    /\ plan_log[2].result = "brief B"
    /\ plan_log[3].tool = "Code_Auditor"
    /\ plan_log[3].mode = "hybrid"
    /\ plan_log[3].dispatched = "hybrid"
    /\ plan_log[3].brief = "brief B"

ErrorResults == {"Error: No PDF path provided", "Error: PDF not found"}

(* C19: a Legal_Analyzer call whose PDF path is missing or names no file
   returns an error and does not call the legal tool; a Code_Auditor call
   without a repository URL returns an error, constructs no auditor and
   starts no clone and no model call; and the construction of a
   CodeAuditorAgent or ComplianceChecker raises exactly when GOOGLE_API_KEY
   is missing or empty, and then nothing is cloned and no model is called. *)
C19_ConfigurationErrorsFailFast ==
    \A k \in DOMAIN plan_log :
        LET c == plan_log[k]
        IN  /\ (/\ c.tool = "Legal_Analyzer"
                 /\ (~Truthy(c.pdf_path) \/ ~PathExists(c.pdf_path))) =>
                  /\ ~c.legal_tool_called
                  /\ c.result \in ErrorResults
            /\ c.tool = "Code_Auditor" =>
                  /\ ~Truthy(c.repo_url) =>
                        /\ c.summary = "Error: No repository URL provided"
                        /\ c.constructed = NotConstructed
                        /\ c.dispatched = "none"
                        /\ ~c.expensive
                  /\ c.constructed.class # "none" =>
                        /\ c.constructed.raised <=> ~Truthy(env_api_key)
                        /\ c.constructed.raised =>
                              ~c.expensive /\ c.summary = "Error in code"

C19_Witness ==
    /\ plan_i = 0
    /\ \E k \in DOMAIN plan_log :
          /\ plan_log[k].tool = "Legal_Analyzer"
          /\ plan_log[k].pdf_path = "missing.pdf"
          /\ ~plan_log[k].legal_tool_called
    /\ \E k \in DOMAIN plan_log :
          /\ plan_log[k].tool = "Code_Auditor"
          /\ plan_log[k].constructed.raised

(***************************************************************************)
(* Claims about GitHubRepoTool.                                            *)
(***************************************************************************)
(* C17: a query that returns data returns the data of the most recent
   successful clone_repository; a query made before any clone, after
   cleanup(), or after a clone_repository call that failed returns the
   'No repository cloned' error (or an empty list); and after cleanup()
   current_repo_path and repo_metadata are reset. *)
C17_QueriesFollowLastClone ==
    /\ repo_call.op \in QueryOps =>
          /\ repo_call.status = "data" => repo_call.data_from = repo_call.last_ok
          /\ repo_call.last_clone \in {"none", "error"} =>
                repo_call.status = EmptyAnswer(repo_call.op)
    /\ repo_call.op = "cleanup" =>
          /\ current_repo_path = "None"
          /\ repo_metadata = NoMetadata

(***************************************************************************)
(* The number of model calls and passes of a hybrid audit.                 *)
(***************************************************************************)
(* C20: an audit makes at most one pattern-generation call and at most one
   refinement call, and at most two scans of the Line Auditor, a pass-2
   scan only as the second scan after a pass-1 scan; a pass-2 scan happens
   only after the one refinement call answered a non-empty refined_patterns
   list, after the one pass-2 discovery, and on files none of which is in
   the pass-1 set; there is no further discovery and no scan of a later
   pass. *)
C20_AtMostTwoPasses ==
    /\ trace.pattern_calls <= 1
    /\ trace.refine_calls <= 1
    /\ trace.check_patterns2 <= 1
    /\ Len(trace.scans) <= 2
    /\ \A i \in DOMAIN trace.scans :
          /\ trace.scans[i].pass \in {0, 1, 2}
          /\ trace.scans[i].pass \in {0, 1} => i = 1
          /\ trace.scans[i].pass = 2 =>
                /\ i = 2
                /\ trace.scans[1].pass = 1
                /\ trace.pattern_calls = 1
                /\ trace.refine_calls = 1
                /\ "refinement" \notin trace.failed_stages
                /\ refined_patterns.strings + refined_patterns.others > 0
                /\ trace.check_patterns2 = 1
                /\ Range(trace.scans[i].files) # {}
                /\ Range(trace.scans[i].files) \subseteq newly_discovered_files
                /\ Range(trace.scans[i].files) \cap initial_relevant_files = {}
    /\ trace.check_patterns2 = 1 =>
          /\ trace.refine_calls = 1
          /\ refined_patterns.strings + refined_patterns.others > 0

C20_Witness ==
    /\ pc = "Done"
    /\ trace.pattern_calls = 1
    /\ trace.refine_calls = 1
    /\ trace.check_patterns2 = 1
    /\ Len(trace.scans) = 2
    /\ trace.scans[2].pass = 2

(***************************************************************************)
(* Claims about file discovery.                                            *)
(***************************************************************************)
(* C21: the candidate file set of a discovery pass holds the source of
   every passage that a retrieval of the pass returned: the pass-1 set once
   pass 1 is over, the pass-2 set once pass 2 is over. *)
C21_EveryReturnedSourceIsCandidate ==
    /\ trace.discovery1_done => trace.returned1 \subseteq initial_relevant_files
    /\ pc \in {"Pass2Discovered", "Pass2Done", "Done"} =>
          trace.returned2 \subseteq second_pass_files

(***************************************************************************)
(* Claims about the directories of QA sessions.                            *)
(***************************************************************************)
(* the session clone directories that exist on disk *)
QaDirsOnDisk == {d \in DOMAIN qa_dirs : qa_dirs[d]}

(* C27: after any sequence of session starts, questions, failures and
   cleanups, the only session clone directory on disk is the one
   qa_temp_dir records, so a session started for another repository has
   removed the directory of the previous one; and qa_repo_url is set only
   while qa_tool_instance is a tool that indexed that URL. *)
C27_OneSessionDirectory ==
    /\ QaDirsOnDisk \subseteq {qa_temp_dir}
    /\ Cardinality(QaDirsOnDisk) <= 1
    /\ Truthy(qa_repo_url) =>
          /\ qa_tool_instance # 0
          /\ qa_tools[qa_tool_instance].indexed = qa_repo_url

(***************************************************************************)
(* Claims about the files a hybrid result reports.                         *)
(***************************************************************************)
(* the files the Line Auditor analysed in the scan of pass n *)
AnalysedInPass(n) ==
    UNION {Analysable(Range(trace.scans[i].files)) : i \in ScansOfPass(n)}

(* C26: every file that the result of a hybrid audit lists in
   files_scanned_in_detail was analysed by the Line Auditor in one of the
   two scans, so it exists in the clone and passes _should_analyze_file,
   and pass1_files and pass2_files count the files analysed in their
   pass. *)
C26_ReportedFilesWereAnalysed ==
    (pc = "Done" /\ result.path = "hybrid") =>
        /\ result.files_scanned_in_detail
              \subseteq AnalysedInPass(1) \cup AnalysedInPass(2)
        /\ \A p \in result.files_scanned_in_detail :
              Exists(p) /\ ShouldAnalyzeFile(p)
        /\ result.pass1_files = Cardinality(AnalysedInPass(1))
        /\ result.pass2_files = Cardinality(AnalysedInPass(2))

(***************************************************************************)
(* Claims about the deletion of an existing store.                         *)
(***************************************************************************)
(* C22: a call that deletes the existing store makes at most 3 rmtree
   attempts, and every attempt but the last followed a PermissionError; the
   rename to a backup name is tried only after three attempts that all
   failed; when the rename fails the call raises, hands nothing to the
   store and leaves it as it was; and when the call goes on to ingestion
   there is no store at the path when ingestion starts, so the store it
   leaves holds only the chunks of this call. *)
C22_DeletionRetries ==
    \A n \in DOMAIN ingest_log :
        LET e == ingest_log[n]
            d == e.deletion
        IN  d.outcome # "none" =>
                /\ d.attempts \in 1..MaxRetries
                /\ \A i \in 1..(d.attempts - 1) : d.errors[i] = "PermissionError"
                /\ d.rename # "none" =>
                      /\ d.attempts = MaxRetries
                      /\ Len(d.errors) = MaxRetries
                /\ d.rename = "failed" =>
                      /\ e.raised
                      /\ e.added = <<>>
                      /\ e.after = e.before
                /\ d.outcome \in {"deleted", "renamed"} =>
                      /\ ~e.store_at_ingestion
                      /\ DOMAIN e.after \subseteq Range(e.added)

C22_Witness ==
    \E n \in DOMAIN ingest_log :
        /\ n > 1
        /\ ingest_log[n].deletion.outcome = "renamed"
        /\ ingest_log[n].deletion.attempts = MaxRetries
        /\ ingest_log[n].before # EmptyStore
        /\ ingest_log[n].added # <<>>
        /\ ~ingest_log[n].raised

(* C28: the chunk IDs a call hands to the store in one add are pairwise
   distinct, and every chunk text in the store is stored under one ID
   only. *)
C28_AddedIdsDistinct ==
    /\ \A n \in DOMAIN ingest_log :
          \A i, j \in DOMAIN ingest_log[n].added :
              i # j => ingest_log[n].added[i] # ingest_log[n].added[j]
    /\ \A id1, id2 \in DOMAIN vectorstore :
          vectorstore[id1].page_content = vectorstore[id2].page_content
              => id1 = id2

(***************************************************************************)
(* Claims about the deletion of a temporary clone.                         *)
(***************************************************************************)
(* C23: in every deletion of a clone, each read-only file whose removal
   failed had its attribute cleared and its removal tried again, so a clone
   whose only obstacles are read-only files is removed whole; and a
   deletion that fails does not turn an answer that was computed into an
   error. *)
C23_ReadOnlyHandledEverywhere ==
    cleanup_call.site # "none" =>
        /\ \A i \in cleanup_call.rmtree.failed :
              cleanup_call.files[i] = "read_only" =>
                  /\ i \in cleanup_call.rmtree.chmods
                  /\ i \in cleanup_call.rmtree.retries
                  /\ i \in cleanup_call.rmtree.removed
        /\ (\A i \in DOMAIN cleanup_call.files :
                cleanup_call.files[i] # "locked") =>
              cleanup_call.rmtree.removed = DOMAIN cleanup_call.files
        /\ cleanup_call.answer_computed => cleanup_call.returned = "answer"

(***************************************************************************)
(* Claims about the REST API.                                              *)
(***************************************************************************)
(* C29: every session in chat_sessions is indexed; an ask for a session
   that is not there answers 404 and one for a session that is not indexed
   answers 400, and neither changes chat_sessions; an ask that succeeds
   appends one user message and then one assistant message to its session
   and changes nothing else; and a clone directory is on disk only for a
   session that is in chat_sessions and indexed. *)
C29_SessionsConsistent ==
    /\ \A id \in DOMAIN chat_sessions : chat_sessions[id].indexed
    /\ api_call.endpoint = "ask_question" =>
          LET id == api_call.session_id
              before == api_call.before
          IN  /\ id \notin DOMAIN before =>
                    api_call.status = 404 /\ chat_sessions = before
              /\ (id \in DOMAIN before /\ ~before[id].indexed) =>
                    api_call.status = 400 /\ chat_sessions = before
              /\ api_call.status = 200 =>
                    chat_sessions =
                        [before EXCEPT ![id].messages = @ \o <<"user", "assistant">>]
    /\ \A d \in DOMAIN api_dirs :
          api_dirs[d] => d \in DOMAIN chat_sessions /\ chat_sessions[d].indexed

(* C30: a code-audit request whose PDF does not exist is answered 404, one
   with neither PDF nor brief is answered 400, both without a clone, and a
   request is answered 500 only when something else failed. *)
C30_AuditCodeStatuses ==
    api_call.endpoint = "audit_code" =>
        LET with_pdf == Truthy(api_call.before.pdf_path)
        IN  /\ (with_pdf /\ ~PathExists(api_call.before.pdf_path)) =>
                  api_call.status = 404 /\ ~api_call.cloned
            /\ (~with_pdf /\ ~Truthy(api_call.before.technical_brief)) =>
                  api_call.status = 400 /\ ~api_call.cloned
            /\ api_call.status = 500 => api_call.raised = 500

====
